---- MODULE Spec2Model ----
(***************************************************************************)
(* EcoScan preprocessing pipeline (src/src/preprocessing.py), its entry    *)
(* point analyze_structure (src/src/extraction.py) and the Streamlit       *)
(* caller (src/app.py).                                                    *)
(*                                                                         *)
(* Text is modelled character by character: a Python str is a sequence of  *)
(* one-character strings, so that len(), split(), isupper(), title(),      *)
(* strip(), endswith() and re.search() are computed, not assumed.          *)
(*                                                                         *)
(* Python floats are modelled as scaled integers: csr_density and          *)
(* conciseness in units of 1e-4 (round(x, 4)), reduction_pct in units of   *)
(* 1e-2 (round(x, 2)).                                                     *)
(***************************************************************************)
EXTENDS Integers, Sequences, FiniteSets, TLC

\* ------------------------------------------------------------------------
\* Bounds of the model
\* ------------------------------------------------------------------------

\* Pages of a short document (each page holds one raw line or no text).
MaxPages == 2

\* Lines of a long document (one page, every line closes a paragraph).
MaxParas == 21

\* Calls of analyze_structure in one session of the application.
MaxAnalyses == 3

\* Logical paragraphs of a fabricated line sequence.
MaxGroups == 2

\* ------------------------------------------------------------------------
\* Characters and Python str primitives
\* ------------------------------------------------------------------------

UpperChars ==
  <<"A","B","C","D","E","F","G","H","I","J","K","L","M",
    "N","O","P","Q","R","S","T","U","V","W","X","Y","Z">>

LowerChars ==
  <<"a","b","c","d","e","f","g","h","i","j","k","l","m",
    "n","o","p","q","r","s","t","u","v","w","x","y","z">>

UpperSet == {UpperChars[i] : i \in 1..Len(UpperChars)}

LowerSet == {LowerChars[i] : i \in 1..Len(LowerChars)}

DigitSet == {"0","1","2","3","4","5","6","7","8","9"}

\* Python's str.isspace() characters that occur in the model.
SpaceSet == {" ", "\n"}

LowerMap ==
  [c \in UpperSet |-> LowerChars[CHOOSE i \in 1..Len(UpperChars) : UpperChars[i] = c]]

UpperMap ==
  [c \in LowerSet |-> UpperChars[CHOOSE i \in 1..Len(LowerChars) : LowerChars[i] = c]]

LowerChar(c) == IF c \in UpperSet THEN LowerMap[c] ELSE c

UpperChar(c) == IF c \in LowerSet THEN UpperMap[c] ELSE c

IsCased(c) == c \in UpperSet \/ c \in LowerSet

\* str.lower()
Lower(s) == [i \in 1..Len(s) |-> LowerChar(s[i])]

\* str.isupper(): at least one cased character and no lower-case one.
IsUpper(s) ==
  /\ \E i \in 1..Len(s) : s[i] \in UpperSet
  /\ \A i \in 1..Len(s) : s[i] \notin LowerSet

\* str.title(): a cased character is upper-cased when it follows an uncased
\* character (or starts the string) and lower-cased otherwise.
Title(s) ==
  [i \in 1..Len(s) |->
     IF i = 1 \/ ~IsCased(s[i - 1]) THEN UpperChar(s[i]) ELSE LowerChar(s[i])]

\* Index of the first character at or after i that is not in chars
\* (Len(s) + 1 when there is none).
FirstNotIn(s, chars, i) ==
  IF i > Len(s) THEN i
  ELSE CHOOSE j \in i..(Len(s) + 1) :
         /\ j > Len(s) \/ s[j] \notin chars
         /\ \A k \in i..(j - 1) : s[k] \in chars

\* Index of the first character at or after i that is in chars
\* (Len(s) + 1 when there is none).
FirstIn(s, chars, i) ==
  IF i > Len(s) THEN i
  ELSE CHOOSE j \in i..(Len(s) + 1) :
         /\ j > Len(s) \/ s[j] \in chars
         /\ \A k \in i..(j - 1) : s[k] \notin chars

\* Index of the last character at or before i that is not in chars
\* (0 when there is none).
LastNotIn(s, chars, i) ==
  IF i < 1 THEN i
  ELSE CHOOSE j \in 0..i :
         /\ j = 0 \/ s[j] \notin chars
         /\ \A k \in (j + 1)..i : s[k] \in chars

\* The indices of s, in order.
Indices(s) == [i \in 1..Len(s) |-> i]

\* The concatenation of parts[lo..hi].
RECURSIVE Concat(_, _, _)
Concat(parts, lo, hi) ==
  IF lo > hi THEN <<>>
  ELSE IF lo = hi THEN parts[lo]
  ELSE LET mid == (lo + hi) \div 2
       IN Concat(parts, lo, mid) \o Concat(parts, mid + 1, hi)

\* str.lstrip(chars)
LStripChars(s, chars) == SubSeq(s, FirstNotIn(s, chars, 1), Len(s))

\* str.strip()
Strip(s) ==
  SubSeq(s, FirstNotIn(s, SpaceSet, 1), LastNotIn(s, SpaceSet, Len(s)))

\* str.startswith(p) / str.endswith(p)
StartsWith(s, p) == Len(p) <= Len(s) /\ SubSeq(s, 1, Len(p)) = p

EndsWith(s, p) ==
  Len(p) <= Len(s) /\ SubSeq(s, Len(s) - Len(p) + 1, Len(s)) = p

\* p occurs in s at index i.
MatchAt(s, p, i) == i + Len(p) - 1 <= Len(s) /\ SubSeq(s, i, i + Len(p) - 1) = p

\* re.search of a literal pattern.
Contains(s, p) == \E i \in 1..(Len(s) - Len(p) + 1) : MatchAt(s, p, i)

\* sep.join(parts)
Join(parts, sep) ==
  Concat([i \in 1..Len(parts) |-> IF i = 1 THEN parts[i] ELSE sep \o parts[i]],
         1, Len(parts))

\* Index of the first occurrence of sep at or after i (0 when there is none).
Find(s, sep, i) ==
  LET last == Len(s) - Len(sep) + 1
  IN IF \E j \in i..last : MatchAt(s, sep, j)
     THEN CHOOSE j \in i..last :
            MatchAt(s, sep, j) /\ \A k \in i..(j - 1) : ~MatchAt(s, sep, k)
     ELSE 0

\* str.split(sep): scan left to right, cutting at each non-overlapping
\* occurrence of sep; the result always has at least one element.
RECURSIVE SplitFrom(_, _, _)
SplitFrom(s, sep, start) ==
  LET i == Find(s, sep, start)
  IN IF i = 0 THEN <<SubSeq(s, start, Len(s))>>
     ELSE <<SubSeq(s, start, i - 1)>> \o SplitFrom(s, sep, i + Len(sep))

Split(s, sep) == SplitFrom(s, sep, 1)

\* str.split() without argument: the maximal runs of non-whitespace.
SplitWhitespace(s) ==
  LET starts == SelectSeq(Indices(s),
                          LAMBDA i : /\ s[i] \notin SpaceSet
                                     /\ (i = 1 \/ s[i - 1] \in SpaceSet))
  IN [k \in 1..Len(starts) |->
        SubSeq(s, starts[k], FirstIn(s, SpaceSet, starts[k]) - 1)]

NL == <<"\n">>

NLNL == <<"\n", "\n">>

SP == <<" ">>

\* Python's round(num / den, k) for den > 0, as an integer count of 10^-k
\* units: num is already multiplied by 10^k.  round() rounds the binary
\* quotient half to even; on every quotient the documents of the model
\* produce this agrees with exact half-to-even rounding of the fraction.
RoundHalfEven(num, den) ==
  LET q == num \div den
      r == num - q * den
  IN IF 2 * r > den \/ (2 * r = den /\ q % 2 = 1) THEN q + 1 ELSE q

\* ------------------------------------------------------------------------
\* Configuration (preprocessing.py, lines 33-71)
\* ------------------------------------------------------------------------

\* The ESG keyword regular expressions; every one is a literal.
ESG_KEYWORDS ==
  <<
    <<"e","m","i","s","s","i","o","n">>, <<"g","h","g">>,
    <<"s","c","o","p","e"," ","1">>, <<"s","c","o","p","e"," ","2">>,
    <<"s","c","o","p","e"," ","3">>, <<"e","n","e","r","g","y">>,
    <<"r","e","n","e","w","a","b","l","e">>, <<"c","a","r","b","o","n">>,
    <<"c","l","i","m","a","t","e">>, <<"w","a","t","e","r">>,
    <<"w","a","s","t","e">>, <<"b","i","o","d","i","v","e","r","s","i","t","y">>,
    <<"t","c","o","2">>, <<"m","w","h">>,
    <<"g","j">>, <<"s","a","f","e","t","y">>,
    <<"i","n","j","u","r","y">>, <<"t","r","i","r">>,
    <<"i","n","c","i","d","e","n","t">>, <<"f","a","t","a","l","i","t","y">>,
    <<"w","o","r","k","f","o","r","c","e">>, <<"e","m","p","l","o","y","e","e">>,
    <<"d","i","v","e","r","s","i","t","y">>, <<"w","o","m","e","n">>,
    <<"g","e","n","d","e","r">>, <<"t","r","a","i","n","i","n","g">>,
    <<"h","u","m","a","n"," ","r","i","g","h","t","s">>, <<"c","o","m","m","u","n","i","t","y">>,
    <<"g","o","v","e","r","n","a","n","c","e">>, <<"b","o","a","r","d">>,
    <<"s","u","p","p","l","i","e","r">>, <<"s","u","p","p","l","y"," ","c","h","a","i","n">>,
    <<"t","r","a","c","e","a","b","i","l","i","t","y">>, <<"c","o","d","e"," ","o","f"," ","c","o","n","d","u","c","t">>,
    <<"c","o","r","r","u","p","t","i","o","n">>, <<"a","u","d","i","t">>,
    <<"c","o","m","p","l","i","a","n","c","e">>, <<"r","i","s","k">>,
    <<"m","a","t","e","r","i","a","l","i","t","y">>, <<"s","t","a","k","e","h","o","l","d","e","r">>
  >>

\* The general-language stopwords of nltk (English and Italian) that the
\* words of the model's documents can meet.
nltk_stopwords ==
  {
    <<"t","h","e">>, <<"o","f">>, <<"a","n","d">>, <<"a">>,
    <<"i","n">>, <<"t","o">>, <<"i","s">>, <<"f","o","r">>,
    <<"o","n">>, <<"w","i","t","h">>, <<"b","y">>, <<"o","u","r">>,
    <<"w","e">>, <<"a","b","o","u","t">>, <<"c","a","n">>, <<"n","o","t">>,
    <<"i","l">>, <<"l","a">>, <<"d","i">>, <<"e">>,
    <<"p","e","r">>, <<"c","o","n">>, <<"u","p">>, <<"a","l","l">>,
    <<"n","o","w">>
  }

CORPORATE_STOPWORDS ==
  {
    <<"g","r","o","u","p">>, <<"r","e","p","o","r","t">>, <<"f","i","s","c","a","l">>,
    <<"y","e","a","r">>, <<"a","n","n","u","a","l">>, <<"c","o","n","t","i","n","u","e","d">>,
    <<"c","o","m","m","i","t","m","e","n","t">>, <<"c","o","m","p","a","n","y">>, <<"s","t","r","a","t","e","g","y">>,
    <<"m","a","n","a","g","e","m","e","n","t">>, <<"p","e","r","f","o","r","m","a","n","c","e">>, <<"t","a","r","g","e","t">>,
    <<"a","p","p","r","o","a","c","h">>, <<"p","a","g","e">>, <<"t","o","t","a","l">>,
    <<"n","e","w">>, <<"b","u","s","i","n","e","s","s">>, <<"d","a","t","a">>,
    <<"r","e","p","o","r","t","i","n","g">>, <<"a","l","s","o">>, <<"w","i","t","h","i","n">>
  }

STOP_WORDS == nltk_stopwords \cup CORPORATE_STOPWORDS

\* The bullet glyphs of to_markdown: the bullet U+2022, the hyphen and the
\* en dash U+2013 (a non-ASCII character is written by its code point).
BulletChars == {"U+2022", "-", "U+2013"}

\* ------------------------------------------------------------------------
\* Utilities (preprocessing.py, lines 77-112)
\* ------------------------------------------------------------------------

\* Characters nltk's word tokenizer always sets apart as one-character tokens
\* (rules [;@#$%&], [?!] and the brackets rule).
AlwaysSplit == {"#", "!", "?", "(", ")", "%", "&", ";", "@", "$"}

\* The tokenizer's padding pass: a space is put around every token boundary
\* that is not already whitespace.  A ':' or ',' is set apart unless a digit
\* follows; a '.' is set apart when it ends a whitespace-delimited word (the
\* sentence splitter breaks after it and the final-period rule detaches it).
\* Abbreviations, initials, ordinals, quotes and "--" are not in the model's
\* documents.
PaddedChar(s, i) ==
  LET c == s[i]
      atEnd == i = Len(s)
  IN IF c \in AlwaysSplit THEN <<" ", c, " ">>
     ELSE IF c \in {":", ","} /\ (atEnd \/ s[i + 1] \notin DigitSet)
          THEN <<" ", c, " ">>
     ELSE IF /\ c = "."
             /\ (atEnd \/ s[i + 1] \in SpaceSet)
             /\ i > 1
             /\ s[i - 1] # "."
          THEN <<" ", c>>
     ELSE <<c>>

Padded(s) == Concat([i \in 1..Len(s) |-> PaddedChar(s, i)], 1, Len(s))

\* nltk.word_tokenize(text)
word_tokenize(text) == SplitWhitespace(Padded(text))

count_tokens(text) == Len(word_tokenize(text))

is_relevant(text) ==
  LET text_lower == Lower(text)
  IN \E k \in 1..Len(ESG_KEYWORDS) : Contains(text_lower, ESG_KEYWORDS[k])

\* r"\(cid:\d+\)" matched at index i of s; the index after the match, or 0.
CidEnd(s, i) ==
  IF ~MatchAt(s, <<"(","c","i","d",":">>, i) THEN 0
  ELSE LET j == FirstNotIn(s, DigitSet, i + 5)
       IN IF j > i + 5 /\ j <= Len(s) /\ s[j] = ")" THEN j + 1 ELSE 0

\* re.search(NOISE_PATTERNS[k], s)
NoiseMatch(k, s) ==
  CASE k = 1 ->  \* ^\d+\s*$
         LET j == FirstNotIn(s, DigitSet, 1)
         IN j > 1 /\ FirstNotIn(s, SpaceSet, j) > Len(s)
    [] k = 2 ->  \* ^page\s+\d+$
         /\ StartsWith(s, <<"p","a","g","e">>)
         /\ LET j == FirstNotIn(s, SpaceSet, 5)
                e == FirstNotIn(s, DigitSet, j)
            IN j > 5 /\ e > j /\ e > Len(s)
    [] k = 3 ->  \* ^\s*report\s*$
         Strip(s) = <<"r","e","p","o","r","t">>
    [] k = 4 -> Contains(s, <<"c","o","n","f","i","d","e","n","t","i","a","l">>)
    [] k = 5 ->
         Contains(s, <<"a","l","l"," ","r","i","g","h","t","s"," ",
                       "r","e","s","e","r","v","e","d">>)
    [] k = 6 ->  \* \(cid:\d+\)
         \E i \in 1..Len(s) : CidEnd(s, i) > 0
    [] k = 7 ->  \* www\.[a-z0-9-]+\.[a-z]+
         \E i \in 1..Len(s) :
           /\ MatchAt(s, <<"w","w","w",".">>, i)
           /\ \E j \in (i + 5)..(Len(s) - 1) :
                /\ s[j] = "."
                /\ s[j + 1] \in LowerSet
                /\ \A m \in (i + 4)..(j - 1) :
                     s[m] \in LowerSet \cup DigitSet \cup {"-"}

NOISE_PATTERNS == 1..7

\* is_noise without the trimming of its argument.
IsNoiseUntrimmed(text) ==
  LET text_lower == Lower(text)
  IN IF Len(text_lower) < 5 THEN TRUE
     ELSE \E k \in NOISE_PATTERNS : NoiseMatch(k, text_lower)

is_noise(text) ==
  LET text_lower == Lower(Strip(text))
  IN IF Len(text_lower) < 5 THEN TRUE
     ELSE \E k \in NOISE_PATTERNS : NoiseMatch(k, text_lower)

\* remove_stopwords returning the kept words in lower case.
RemoveStopwordsLowered(text) ==
  LET words == word_tokenize(text)
      filtered == SelectSeq(words, LAMBDA w : Lower(w) \notin STOP_WORDS)
  IN Lower(Join(filtered, SP))

remove_stopwords(text) ==
  LET words == word_tokenize(text)
      filtered == SelectSeq(words, LAMBDA w : Lower(w) \notin STOP_WORDS)
  IN Join(filtered, SP)

\* ------------------------------------------------------------------------
\* clean_text (preprocessing.py, lines 115-160)
\* ------------------------------------------------------------------------

\* The characters of s at the indices that satisfy keep, in order.
KeepChars(s, keep(_)) ==
  LET kept == SelectSeq(Indices(s), keep)
  IN [k \in 1..Len(kept) |-> s[kept[k]]]

\* re.sub(r"\(cid:\d+\)", "", line): the characters inside a match go.
SubCid(s) ==
  KeepChars(s, LAMBDA i : ~\E j \in 1..i : CidEnd(s, j) > i)

\* re.sub(r"\s+", " ", line): a run of whitespace becomes one space.
SubSpaces(s) ==
  LET t == KeepChars(s, LAMBDA i : ~(s[i] \in SpaceSet /\ i > 1 /\ s[i - 1] \in SpaceSet))
  IN [i \in 1..Len(t) |-> IF t[i] \in SpaceSet THEN " " ELSE t[i]]

\* First pass of clean_text: the retained lines, cleaned.
CleanLines(lines) ==
  LET stripped == [i \in 1..Len(lines) |-> Strip(lines[i])]
      retained == SelectSeq(stripped, LAMBDA line : line # <<>> /\ ~is_noise(line))
  IN [i \in 1..Len(retained) |-> remove_stopwords(SubSpaces(SubCid(retained[i])))]

\* Mutant of IsEndChar: the period is missing from the tuple.
IsEndCharNoPeriod(line) == \E e \in {"!", "?", ":"} : EndsWith(line, <<e>>)

\* line.endswith(('.', '!', '?', ':'))
IsEndChar(line) == \E e \in {".", "!", "?", ":"} : EndsWith(line, <<e>>)

\* Mutant of IsHeader: the length limit is dropped.
IsHeaderAnyLength(line) == IsUpper(line)

\* line.isupper() and len(line) < 100
IsHeader(line) == IsUpper(line) /\ Len(line) < 100

\* Second pass of clean_text: the loop over cleaned_lines with its two
\* accumulators, and the flush of the trailing buffer.
RECURSIVE MergeParagraphs(_, _, _, _)
MergeParagraphs(lines, i, merged_paragraphs, current_para) ==
  IF i > Len(lines)
  THEN IF current_para # <<>>
       THEN Append(merged_paragraphs, Join(current_para, SP))
       ELSE merged_paragraphs
  ELSE LET line == lines[i]
           para == Append(current_para, line)
       IN IF IsEndChar(line) \/ IsHeader(line)
          THEN MergeParagraphs(lines, i + 1,
                               Append(merged_paragraphs, Join(para, SP)), <<>>)
          ELSE MergeParagraphs(lines, i + 1, merged_paragraphs, para)

CleanedLines(raw) == CleanLines(Split(raw, NL))

clean_text(raw) == Join(MergeParagraphs(CleanedLines(raw), 1, <<>>, <<>>), NLNL)

\* ------------------------------------------------------------------------
\* to_markdown (preprocessing.py, lines 213-233)
\* ------------------------------------------------------------------------

MarkdownLine(line) ==
  IF IsUpper(line) /\ Len(line) < 100
  THEN <<"#", "#", " ">> \o Title(line)
  ELSE IF \E b \in BulletChars : StartsWith(Strip(line), <<b>>)
       THEN <<"-", " ">> \o LStripChars(Strip(line), BulletChars \cup {" "})
  ELSE line

to_markdown(text) ==
  LET lines == Split(text, NLNL)
  IN Join([i \in 1..Len(lines) |-> MarkdownLine(lines[i])], NLNL)

\* ------------------------------------------------------------------------
\* Metrics (preprocessing.py, lines 240-249 and 280-317)
\* ------------------------------------------------------------------------

\* A Python division num / den followed by round(): ZeroDivisionError is
\* raised when den = 0.
PyDivRound(num, den) ==
  IF den = 0 THEN [raised |-> TRUE, val |-> 0]
  ELSE [raised |-> FALSE, val |-> RoundHalfEven(num, den)]

Value(v) == [raised |-> FALSE, val |-> v]

\* Mutant of calculate_csr_density: the ratio is taken the wrong way round.
CsrDensitySwapped(cleaned, relevant) ==
  IF cleaned = <<>> THEN Value(0)
  ELSE PyDivRound(Len(cleaned) * 10000, Len(relevant))

\* Mutant of calculate_csr_density: the empty-text guard is dropped.
CsrDensityUnguarded(cleaned, relevant) ==
  PyDivRound(Len(relevant) * 10000, Len(cleaned))

\* In units of 1e-4.
calculate_csr_density(cleaned, relevant) ==
  IF cleaned = <<>> THEN Value(0)
  ELSE PyDivRound(Len(relevant) * 10000, Len(cleaned))

\* [p for p in paragraphs if is_relevant(p)]
RelevantParagraphs(paragraphs) == SelectSeq(paragraphs, is_relevant)

\* Mutant of FilterDiscarded: the filter is also discarded at exactly 5%.
FilterDiscardedInclusive(relevant_paragraphs, paragraphs) ==
  Len(relevant_paragraphs) * 20 <= Len(paragraphs)

\* len(relevant_paragraphs) < len(paragraphs) * 0.05: the float product
\* n * 0.05 compares with an integer r exactly as n / 20 does (checked for
\* every n below 3000), so the test is r * 20 < n.
FilterDiscarded(relevant_paragraphs, paragraphs) ==
  Len(relevant_paragraphs) * 20 < Len(paragraphs)

FinalTextContent(cleaned) ==
  LET paragraphs == Split(cleaned, NLNL)
      relevant_paragraphs == RelevantParagraphs(paragraphs)
  IN IF FilterDiscarded(relevant_paragraphs, paragraphs) THEN cleaned
     ELSE Join(relevant_paragraphs, NLNL)

\* Mutant of ReductionPct: the share kept instead of the share removed.
ReductionPctOfFinal(initial, final) ==
  IF initial > 0 THEN PyDivRound(final * 10000, initial)
  ELSE Value(0)

\* In units of 1e-2 (percentage points).
ReductionPct(initial, final) ==
  IF initial > 0 THEN PyDivRound((initial - final) * 10000, initial)
  ELSE Value(0)

\* Mutant of Conciseness: the zero-denominator guard is dropped.
ConcisenessUnguarded(final, cleaned_tok) ==
  PyDivRound(final * 10000, cleaned_tok)

\* In units of 1e-4.
Conciseness(final, cleaned_tok) ==
  IF cleaned_tok > 0 THEN PyDivRound(final * 10000, cleaned_tok)
  ELSE Value(0)

\* ------------------------------------------------------------------------
\* extract_top_keywords (preprocessing.py, lines 163-206)
\* ------------------------------------------------------------------------

\* How a call ends: an exception leaves it, or it returns a value.
Raise(e) == [raised |-> TRUE, exception |-> e, result |-> <<>>]

Return(r) == [raised |-> FALSE, exception |-> "none", result |-> r]

WordChars == LowerSet \cup UpperSet \cup DigitSet \cup {"_"}

\* re.findall(r"\b\w\w+\b", doc): the maximal runs of word characters that
\* are at least two characters long (TfidfVectorizer's token_pattern).
WordRuns(s) ==
  LET starts == SelectSeq(Indices(s),
                          LAMBDA i : /\ s[i] \in WordChars
                                     /\ (i = 1 \/ s[i - 1] \notin WordChars))
      runs == [k \in 1..Len(starts) |->
                 SubSeq(s, starts[k], FirstNotIn(s, WordChars, starts[k]) - 1)]
  IN SelectSeq(runs, LAMBDA w : Len(w) >= 2)

\* The element of a one-element set. A value bound by a set comprehension
\* over {v} is computed once.
Only(s) == CHOOSE r \in s : TRUE

\* The analyzer without its lower-casing.
NgramsCaseSensitive(doc) ==
  Only({
         toks \o [i \in 1..(Len(toks) - 1) |-> toks[i] \o SP \o toks[i + 1]]
           : toks \in {SelectSeq(WordRuns(doc), LAMBDA w : w \notin STOP_WORDS)}})

\* The analyzer of TfidfVectorizer(stop_words=STOP_WORDS, ngram_range=(1, 2)):
\* lower-case, tokenize, drop stopwords, then unigrams followed by bigrams.
Ngrams(doc) ==
  Only({
    Only({
           toks \o [i \in 1..(Len(toks) - 1) |-> toks[i] \o SP \o toks[i + 1]]
             : toks \in {SelectSeq(WordRuns(lowered), LAMBDA w : w \notin STOP_WORDS)}})
             : lowered \in {Lower(doc)}})

Count(seq, x) == Cardinality({i \in 1..Len(seq) : seq[i] = x})

\* Code-point order of the characters a term can hold.
CharOrder ==
  <<" ","0","1","2","3","4","5","6","7","8","9">> \o UpperChars
    \o <<"_">> \o LowerChars

Ord(c) == CHOOSE i \in 1..Len(CharOrder) : CharOrder[i] = c

\* Python's str comparison a < b.
RECURSIVE StrLess(_, _)
StrLess(a, b) ==
  IF b = <<>> THEN FALSE
  ELSE IF a = <<>> THEN TRUE
  ELSE IF a[1] = b[1] THEN StrLess(Tail(a), Tail(b))
  ELSE Ord(a[1]) < Ord(b[1])

\* 100 * ln(k), rounded, for k = 1..12.
LnCenti == <<0, 69, 110, 139, 161, 179, 195, 208, 220, 230, 240, 248>>

\* The smoothed idf ln((1 + n) / (1 + df)) + 1, in hundredths.
IdfCenti(n, df) == LnCenti[1 + n] - LnCenti[1 + df] + 100

\* Integer square root by bisection: lo * lo <= n < hi * hi.
RECURSIVE ISqrtBetween(_, _, _)
ISqrtBetween(n, lo, hi) ==
  IF hi - lo <= 1 THEN lo
  ELSE LET mid == (lo + hi) \div 2
       IN IF mid * mid <= n THEN ISqrtBetween(n, mid, hi)
          ELSE ISqrtBetween(n, lo, mid)

ISqrt(n) == ISqrtBetween(n, 0, 46340)

\* Sum of f[x] over x in S.
RECURSIVE SumOver(_, _)
SumOver(S, f) ==
  IF S = {} THEN 0
  ELSE LET x == CHOOSE y \in S : TRUE IN f[x] + SumOver(S \ {x}, f)

\* sorted(term_scores, key=score, reverse=True): the sort is stable, so
\* terms of equal score keep the order of get_feature_names_out(), which
\* is ascending by term.
RECURSIVE SortedTerms(_, _)
SortedTerms(terms, score) ==
  IF terms = {} THEN <<>>
  ELSE LET best == CHOOSE t \in terms :
                     \A u \in terms \ {t} :
                       \/ score[t] > score[u]
                       \/ score[t] = score[u] /\ StrLess(t, u)
       IN <<best>> \o SortedTerms(terms \ {best}, score)

\* The terms kept by max_df = 0.95: those with df <= 0.95 * n.
Vocabulary(docs) ==
  LET n == Len(docs)
      all == UNION {{docs[d][i] : i \in 1..Len(docs[d])} : d \in 1..n}
  IN {t \in all : Cardinality({d \in 1..n : Count(docs[d], t) > 0}) * 20
                    <= 19 * n}

\* tf * idf of every term of the vocabulary in every document.
Weights(docs, vocab) ==
  LET n == Len(docs)
  IN [t \in vocab |->
        Only({[d \in 1..n |-> Count(docs[d], t) * idf]
          : idf \in {IdfCenti(n, Cardinality({d \in 1..n : Count(docs[d], t) > 0}))}})]

\* The l2 norm of every document's row.
Norms(n, vocab, w) ==
  [d \in 1..n |->
     Only({ISqrt(SumOver(vocab, sq))
       : sq \in {[t \in vocab |-> w[t][d] * w[t][d]]}})]

\* tfidf_matrix.sum(axis=0): every term's normalized weight summed over
\* the documents.
Scores(n, vocab, w, norm) ==
  [t \in vocab |->
     Only({SumOver(1..n, row)
       : row \in {[d \in 1..n |-> IF norm[d] = 0 THEN 0
                          ELSE (w[t][d] * 1000) \div norm[d]]}})]

\* The TF-IDF branch of extract_top_keywords over two or more paragraphs.
\* Scores are fixed-point (idf in hundredths, row norm by integer square
\* root). With no term left, fit_transform raises ValueError ("empty
\* vocabulary", or "After pruning, no terms remain").
TfidfTopTerms(paragraphs, top_n) ==
  Only({
    Only({(
      IF vocab = {} THEN Raise("ValueError")
      ELSE
        Only({
          Only({
            Only({
              Only({
                Return(SubSeq(sorted, 1,
                              IF Len(sorted) < top_n THEN Len(sorted)
                              ELSE top_n))
                                : sorted \in {SortedTerms(vocab, score)}})
                                : score \in {Scores(Len(docs), vocab, w, norm)}})
                                : norm \in {Norms(Len(docs), vocab, w)}})
                                : w \in {Weights(docs, vocab)}}))
                                : vocab \in {Vocabulary(docs)}})
                                : docs \in {[d \in 1..Len(paragraphs) |-> Ngrams(paragraphs[d])]}})

\* [p.strip() for p in text_content.split('\n\n') if len(p.split()) > 5]
QualifyingParagraphs(text_content) ==
  LET ps == SelectSeq(Split(text_content, NLNL),
                      LAMBDA p : Len(SplitWhitespace(p)) > 5)
  IN [i \in 1..Len(ps) |-> Strip(ps[i])]

\* extract_top_keywords without its "except ValueError".
KeywordsOutcomeUncaught(text_content, top_n) ==
  IF text_content = <<>> THEN Return(<<>>)
  ELSE Only({(
         IF Len(paragraphs) < 2 THEN Return(<<>>)
         ELSE TfidfTopTerms(paragraphs, top_n))
           : paragraphs \in {QualifyingParagraphs(text_content)}})

\* How a call of extract_top_keywords ends: the two early returns, the
\* ranked terms, and [] where the vectorizer raised ValueError.
KeywordsOutcome(text_content, top_n) ==
  IF text_content = <<>> THEN Return(<<>>)
  ELSE Only({(
         IF Len(paragraphs) < 2 THEN Return(<<>>)
         ELSE Only({(
                IF r.raised /\ r.exception = "ValueError" THEN Return(<<>>)
                ELSE r)
                  : r \in {TfidfTopTerms(paragraphs, top_n)}}))
                  : paragraphs \in {QualifyingParagraphs(text_content)}})

\* The list extract_top_keywords returns.
extract_top_keywords(text_content, top_n) ==
  KeywordsOutcome(text_content, top_n).result

\* ------------------------------------------------------------------------
\* Documents
\* ------------------------------------------------------------------------

\* The raw lines the short documents are made of: a relevant upper-case
\* header, two sentences ending with a period (relevant, not relevant), an
\* open line, a line of stopwords only, a layout-noise line, a bullet, a
\* line ending with a colon, and an upper-case line of exactly 100
\* characters.
LineVocab ==
  <<
    <<"W","A","T","E","R">>,
    <<"t","h","e"," ","g","h","g",".">>,
    <<"t","h","e"," ","o","x",".">>,
    <<"i","t","e","m","s">>,
    <<"o","f"," ","t","h","e">>,
    <<"P","a","g","e"," ","1","2">>,
    <<"-","w","a","t","e","r">>,
    <<"i","t","e","m","s",":">>,
    [i \in 1..100 |-> "W"]
  >>

\* A page is one line of LineVocab, or (0) a page without text.
PageText(k) == IF k = 0 THEN <<>> ELSE LineVocab[k]

ShortDocs ==
  UNION {{[i \in 1..n |-> PageText(f[i])] : f \in [1..n -> 0..Len(LineVocab)]} :
           n \in 0..MaxPages}

RelevantLine == LineVocab[2]

PlainLine == LineVocab[3]

\* A long document is one page of n lines, each closing a paragraph; the
\* lines at the positions of S are relevant.
LongPage(n, S) ==
  Join([i \in 1..n |-> IF i \in S THEN RelevantLine ELSE PlainLine], NL)

\* The long documents: the three longest lengths, with no, one or two
\* relevant lines.
LongDocs ==
  {<<LongPage(n, S)>> :
     n \in (MaxParas - 2)..MaxParas,
     S \in {{}} \cup {{j} : j \in 1..MaxParas} \cup {{1, j} : j \in 2..MaxParas}}

FileNames ==
  { <<"r",".","p","d","f">>, <<"r",".","P","D","F">>, <<"r",".","t","x","t">> }

PdfName == <<"r",".","p","d","f">>

\* The documents of MaxPages pages of text in which reading a page fails.
FailingDocs == {d \in ShortDocs : Len(d) = MaxPages /\ \A i \in 1..Len(d) : d[i] # <<>>}

\* An uploaded file: its name, whether its bytes decode as a PDF, the page
\* at which pdf.pages or page.extract_text() raises (0: none), and the text
\* of its pages.
Files ==
  {[name |-> nm, valid |-> TRUE, fails_at |-> 0, pages |-> d] :
     nm \in FileNames, d \in ShortDocs \cup LongDocs}
  \cup {[name |-> nm, valid |-> FALSE, fails_at |-> 0, pages |-> <<>>] :
          nm \in FileNames}
  \cup {[name |-> PdfName, valid |-> TRUE, fails_at |-> k, pages |-> d] :
          d \in FailingDocs, k \in 1..MaxPages}

NoFile == [name |-> <<>>, valid |-> FALSE, fails_at |-> 0, pages |-> <<>>]

\* ------------------------------------------------------------------------
\* State
\* ------------------------------------------------------------------------

VARIABLES
  pc,                  \* position in analyze_structure / process_pdf_pipeline
  file,                \* uploaded_file
  handle,              \* the pdfplumber handle: "none", "open", "closed"
  page_idx,            \* next page of pdf.pages
  raw_text_pages,
  raw_text,
  initial_tokens,
  cleaned_lines,       \* clean_text's local list
  cleaned_text,
  cleaned_tokens,
  paragraphs,
  relevant_paragraphs,
  final_text_content,
  csr_density,         \* in units of 1e-4
  markdown_text,
  final_tokens,
  metrics,             \* the metrics dict, a function of its keys
  result,              \* the tuple analyze_structure returned
  exception,           \* the exception that left analyze_structure, or "none"
  pipeline_calls       \* invocations of process_pdf_pipeline

VARIABLES
  widget,              \* the file in st.file_uploader, or None
  session_state,       \* st.session_state
  demo_exists,         \* reports/ferrero.pdf exists
  app_pc,              \* the position of the script run
  uploaded_file,       \* the file the run resolved, or None
  app_error,           \* the exception that ended the last script run
  start_shown,         \* the last run rendered the extraction button
  analysis_log         \* the calls of analyze_structure so far: the file, and
                       \* whether the result was stored in processed_data

\* A single call of one function of preprocessing.py or extraction.py on
\* its own: [fn, args, returned, value].
VARIABLE unit

appVars ==
  <<widget, session_state, demo_exists, app_pc, uploaded_file, app_error,
    start_shown, analysis_log>>

pipeVars ==
  <<pc, file, handle, page_idx, raw_text_pages, raw_text, initial_tokens,
    cleaned_lines, cleaned_text, cleaned_tokens, paragraphs,
    relevant_paragraphs, final_text_content, csr_density, markdown_text,
    final_tokens, metrics, result, exception, pipeline_calls>>

PipeInit ==
  /\ pc = "idle"
  /\ file = NoFile
  /\ handle = "none"
  /\ page_idx = 0
  /\ raw_text_pages = <<>>
  /\ raw_text = <<>>
  /\ initial_tokens = 0
  /\ cleaned_lines = <<>>
  /\ cleaned_text = <<>>
  /\ cleaned_tokens = 0
  /\ paragraphs = <<>>
  /\ relevant_paragraphs = <<>>
  /\ final_text_content = <<>>
  /\ csr_density = 0
  /\ markdown_text = <<>>
  /\ final_tokens = 0
  /\ metrics = <<>>
  /\ result = <<>>
  /\ exception = "none"
  /\ pipeline_calls = 0

\* The empty dict {}.
EmptyDict == <<>>

PdfSuffix == <<".","p","d","f">>

\* Mutant of IsPdfName: the suffix is compared without regard to case.
IsPdfNameAnyCase(filename) == EndsWith(Lower(filename), PdfSuffix)

\* filename.endswith('.pdf')
IsPdfName(filename) == EndsWith(filename, PdfSuffix)

\* ------------------------------------------------------------------------
\* analyze_structure (extraction.py, lines 72-95) and
\* process_pdf_pipeline (preprocessing.py, lines 251-319), step by step
\* ------------------------------------------------------------------------

\* extraction.py 78-85, 95: the suffix test; a file of another suffix is
\* answered at once with ("", "", {}).
AnalyzeStructure(f) ==
  /\ pc = "idle"
  /\ file' = f
  /\ IF IsPdfName(f.name)
     THEN /\ pc' = "open"
          /\ pipeline_calls' = pipeline_calls + 1
          /\ result' = result
     ELSE /\ pc' = "returned"
          /\ pipeline_calls' = pipeline_calls
          /\ result' = <<<<>>, <<>>, EmptyDict>>
  /\ UNCHANGED <<appVars, unit, handle, page_idx, raw_text_pages, raw_text, initial_tokens,
                 cleaned_lines, cleaned_text, cleaned_tokens, paragraphs,
                 relevant_paragraphs, final_text_content, csr_density,
                 markdown_text, final_tokens, metrics, exception>>

\* pdfplumber.open with the failure swallowed: bytes that are no PDF are
\* read as a document without pages.
OpenPdfSwallowing ==
  /\ pc = "open"
  /\ handle' = "open"
  /\ page_idx' = 1
  /\ pc' = "pages"
  /\ UNCHANGED <<appVars, unit, file, raw_text_pages, raw_text, initial_tokens,
                 cleaned_lines, cleaned_text, cleaned_tokens, paragraphs,
                 relevant_paragraphs, final_text_content, csr_density,
                 markdown_text, final_tokens, metrics, result, exception,
                 pipeline_calls>>

\* preprocessing.py 264: pdfplumber.open; bytes that are no PDF raise.
OpenPdf ==
  /\ pc = "open"
  /\ IF file.valid
     THEN /\ handle' = "open"
          /\ page_idx' = 1
          /\ pc' = "pages"
          /\ exception' = exception
     ELSE /\ handle' = handle
          /\ page_idx' = page_idx
          /\ pc' = "raised"
          /\ exception' = "DocumentParseError"
  /\ UNCHANGED <<appVars, unit, file, raw_text_pages, raw_text, initial_tokens, cleaned_lines,
                 cleaned_text, cleaned_tokens, paragraphs, relevant_paragraphs,
                 final_text_content, csr_density, markdown_text, final_tokens,
                 metrics, result, pipeline_calls>>

\* One iteration of the page loop in which the exception of a failing
\* page leaves the handle open (no with block).
ExtractPageLeakingHandle ==
  /\ pc = "pages"
  /\ page_idx <= Len(file.pages)
  /\ IF file.fails_at = page_idx
     THEN /\ pc' = "raised"
          /\ exception' = "DocumentParseError"
          /\ UNCHANGED <<handle, raw_text_pages, page_idx>>
     ELSE /\ LET text == file.pages[page_idx]
             IN raw_text_pages' =
                  IF text # <<>> THEN Append(raw_text_pages, text)
                  ELSE raw_text_pages
          /\ page_idx' = page_idx + 1
          /\ UNCHANGED <<pc, handle, exception>>
  /\ UNCHANGED <<appVars, unit, file, raw_text, initial_tokens, cleaned_lines,
                 cleaned_text, cleaned_tokens, paragraphs, relevant_paragraphs,
                 final_text_content, csr_density, markdown_text, final_tokens,
                 metrics, result, pipeline_calls>>

\* preprocessing.py 264-269: one iteration of the page loop. A page
\* without text adds nothing; an exception of pdf.pages or extract_text
\* leaves the with block, which closes the handle, and propagates.
ExtractPage ==
  /\ pc = "pages"
  /\ page_idx <= Len(file.pages)
  /\ IF file.fails_at = page_idx
     THEN /\ handle' = "closed"
          /\ pc' = "raised"
          /\ exception' = "DocumentParseError"
          /\ UNCHANGED <<raw_text_pages, page_idx>>
     ELSE /\ LET text == file.pages[page_idx]
             IN raw_text_pages' =
                  IF text # <<>> THEN Append(raw_text_pages, text)
                  ELSE raw_text_pages
          /\ page_idx' = page_idx + 1
          /\ UNCHANGED <<pc, handle, exception>>
  /\ UNCHANGED <<appVars, unit, file, raw_text, initial_tokens, cleaned_lines,
                 cleaned_text, cleaned_tokens, paragraphs, relevant_paragraphs,
                 final_text_content, csr_density, markdown_text, final_tokens,
                 metrics, result, pipeline_calls>>

\* preprocessing.py 264-274: the with block ends, the handle is closed;
\* raw_text and initial_tokens.
ClosePdf ==
  /\ pc = "pages"
  /\ page_idx > Len(file.pages)
  /\ handle' = "closed"
  /\ raw_text' = Join(raw_text_pages, NL)
  /\ initial_tokens' = count_tokens(raw_text')
  /\ pc' = "clean"
  /\ UNCHANGED <<appVars, unit, file, page_idx, raw_text_pages, cleaned_lines, cleaned_text,
                 cleaned_tokens, paragraphs, relevant_paragraphs,
                 final_text_content, csr_density, markdown_text, final_tokens,
                 metrics, result, exception, pipeline_calls>>

\* preprocessing.py 277-278
CleanText ==
  /\ pc = "clean"
  /\ cleaned_lines' = CleanedLines(raw_text)
  /\ cleaned_text' = clean_text(raw_text)
  /\ cleaned_tokens' = count_tokens(cleaned_text')
  /\ pc' = "filter"
  /\ UNCHANGED <<appVars, unit, file, handle, page_idx, raw_text_pages, raw_text,
                 initial_tokens, paragraphs, relevant_paragraphs,
                 final_text_content, csr_density, markdown_text, final_tokens,
                 metrics, result, exception, pipeline_calls>>

\* preprocessing.py 282-292: the relevance filter with its fallback, and
\* the CSR density of what is kept.
FilterRelevant ==
  /\ pc = "filter"
  /\ paragraphs' = Split(cleaned_text, NLNL)
  /\ relevant_paragraphs' = RelevantParagraphs(paragraphs')
  /\ final_text_content' = FinalTextContent(cleaned_text)
  /\ LET d == calculate_csr_density(cleaned_text, final_text_content')
     IN IF d.raised
        THEN /\ pc' = "raised"
             /\ exception' = "ZeroDivisionError"
             /\ csr_density' = csr_density
        ELSE /\ pc' = "markdown"
             /\ exception' = exception
             /\ csr_density' = d.val
  /\ UNCHANGED <<appVars, unit, file, handle, page_idx, raw_text_pages, raw_text,
                 initial_tokens, cleaned_lines, cleaned_text, cleaned_tokens,
                 markdown_text, final_tokens, metrics, result, pipeline_calls>>

\* preprocessing.py 295-298
StructureMarkdown ==
  /\ pc = "markdown"
  /\ markdown_text' = to_markdown(final_text_content)
  /\ final_tokens' = count_tokens(markdown_text')
  /\ pc' = "metrics"
  /\ UNCHANGED <<appVars, unit, file, handle, page_idx, raw_text_pages, raw_text,
                 initial_tokens, cleaned_lines, cleaned_text, cleaned_tokens,
                 paragraphs, relevant_paragraphs, final_text_content,
                 csr_density, metrics, result, exception, pipeline_calls>>

\* The dict of preprocessing.py 311-317.
MetricsDict(initial, final, reduction, density, conc) ==
  [initial_tokens |-> initial,
   final_tokens |-> final,
   reduction_pct |-> reduction,
   csr_density |-> density,
   conciseness |-> conc]

\* preprocessing.py 300-319: the two guarded ratios and the metrics dict.
ComputeMetrics ==
  /\ pc = "metrics"
  /\ LET reduction == ReductionPct(initial_tokens, final_tokens)
         conciseness == Conciseness(final_tokens, cleaned_tokens)
     IN IF reduction.raised \/ conciseness.raised
        THEN /\ pc' = "raised"
             /\ exception' = "ZeroDivisionError"
             /\ metrics' = metrics
        ELSE /\ pc' = "keywords"
             /\ exception' = exception
             /\ metrics' = MetricsDict(initial_tokens, final_tokens,
                                       reduction.val, csr_density,
                                       conciseness.val)
  /\ UNCHANGED <<appVars, unit, file, handle, page_idx, raw_text_pages, raw_text,
                 initial_tokens, cleaned_lines, cleaned_text, cleaned_tokens,
                 paragraphs, relevant_paragraphs, final_text_content,
                 csr_density, markdown_text, final_tokens, result,
                 pipeline_calls>>

\* metrics["top_keywords"] = top_kwd
WithTopKeywords(m, top_kwd) == m @@ [top_keywords |-> top_kwd]

\* extraction.py 87-93: the top keywords of the processed text are added
\* and the tuple is returned.
TopKeywords ==
  /\ pc = "keywords"
  /\ metrics' = WithTopKeywords(metrics, extract_top_keywords(markdown_text, 8))
  /\ result' = <<markdown_text, raw_text, metrics'>>
  /\ pc' = "returned"
  /\ UNCHANGED <<appVars, unit, file, handle, page_idx, raw_text_pages, raw_text,
                 initial_tokens, cleaned_lines, cleaned_text, cleaned_tokens,
                 paragraphs, relevant_paragraphs, final_text_content,
                 csr_density, markdown_text, final_tokens, exception,
                 pipeline_calls>>

\* ------------------------------------------------------------------------
\* extract_kpis_with_llm (extraction.py, lines 98-203)
\* ------------------------------------------------------------------------

\* Python's None, and a value that is not None.
None == <<>>

Some(x) == <<x>>

\* The most tool calls the model asks for in a row in one extraction.
MaxToolCalls == 6

\* What the model's reply to a message can be: the request fails, the reply
\* has no candidate, it calls calculate_kpi (with or without both
\* arguments) or a function that does not exist, it carries a parsed
\* report, JSON text that validates or does not, or nothing.
FinalReplies ==
  {"raise", "malformed", "bad_args_call", "unknown_call", "parsed", "text",
   "invalid_text", "nothing"}

\* What the LLM service does in one extraction: whether the API key is
\* there, whether chats.create raises, how many replies ask for
\* calculate_kpi before the reply that ends the exchange, the recap field
\* with which numerator and denominator, the recap field of the report the
\* model returned, and what generate_content does for the recap.
Llm(client, create, calls, kpi_args, final, model_recap, recap) ==
  [client |-> client, create |-> create, calls |-> calls,
   kpi_args |-> kpi_args, final |-> final, model_recap |-> model_recap,
   recap |-> recap]

\* The numerator and denominator of a calculate_kpi request: the prompt's
\* example, a zero denominator, a quotient that is rounded.
KpiArgs == {<<1000, 50>>, <<7, 0>>, <<1, 3>>}

LlmScenarios ==
  {Llm(FALSE, "ok", 0, <<1000, 50>>, "parsed", None, "text"),
   Llm(TRUE, "raise", 0, <<1000, 50>>, "parsed", None, "text")}
  \cup {Llm(TRUE, "ok", calls, kpi_args, final, model_recap, recap) :
          calls \in 0..MaxToolCalls, kpi_args \in KpiArgs,
          final \in FinalReplies,
          model_recap \in {None, Some("model")},
          recap \in {"text", "empty", "raise"}}

\* The services of the application's session: no API key, a failing
\* exchange, no data, and a parsed report.
LlmOutcomes ==
  {Llm(FALSE, "ok", 0, <<1000, 50>>, "parsed", None, "text"),
   Llm(TRUE, "ok", 0, <<1000, 50>>, "raise", None, "text"),
   Llm(TRUE, "ok", 0, <<1000, 50>>, "nothing", None, "text"),
   Llm(TRUE, "ok", 1, <<1000, 50>>, "parsed", None, "text")}

\* ESGReport(extraction_confidence=0.0): the defaults of models.py 38-62.
DefaultReport ==
  [extraction_confidence |-> 0, initial_tokens |-> 0, final_tokens |-> 0,
   token_reduction_pct |-> 0, csr_density |-> 0, conciseness_proxy |-> 0,
   recap |-> None]

\* dict.get(key, default)
Get(d, key, default) == IF key \in DOMAIN d THEN d[key] ELSE default

\* The keys extract_kpis_with_llm reads with token_metrics[...].
InjectedKeys == {"initial_tokens", "final_tokens", "reduction_pct"}

\* The k-th reply of the model in one chat.
Reply(llm, k) == IF k <= llm.calls THEN "calculate_kpi" ELSE llm.final

\* calculate_kpi without its guard on the denominator.
CalculateKpiUnguarded(numerator, denominator) ==
  PyDivRound(numerator * 10000, denominator)

\* extraction.py 110-116: round(numerator / denominator, 4) in units of
\* 1e-4, and 0.0 for a zero denominator.
calculate_kpi(numerator, denominator) ==
  IF denominator = 0 THEN Value(0)
  ELSE PyDivRound(numerator * 10000, denominator)

\* How the tool loop stands: whether it raised, the reply in hand, the
\* turns begun, the function responses sent and the last result of
\* calculate_kpi.
LoopState(raised, reply, turns, sent, kpi) ==
  [raised |-> raised, reply |-> reply, turns |-> turns, sent |-> sent,
   kpi |-> kpi]

\* The tool loop with a sixth turn.
RECURSIVE ToolLoopSixTurns(_, _, _, _)
ToolLoopSixTurns(llm, turn, k, sent) ==
  IF turn > 6 THEN LoopState(FALSE, Reply(llm, k), turn - 1, sent, None)
  ELSE CASE Reply(llm, k) \in {"malformed", "bad_args_call"} ->
              LoopState(TRUE, Reply(llm, k), turn, sent, None)
         [] Reply(llm, k) = "calculate_kpi" ->
              IF Reply(llm, k + 1) = "raise"
              THEN LoopState(TRUE, "raise", turn, sent + 1, None)
              ELSE ToolLoopSixTurns(llm, turn + 1, k + 1, sent + 1)
         [] Reply(llm, k) = "unknown_call" ->
              ToolLoopSixTurns(llm, turn + 1, k, sent)
         [] OTHER -> LoopState(FALSE, Reply(llm, k), turn, sent, None)

\* extraction.py 146-168: the tool loop from its turn-th turn on, with the
\* k-th reply in hand and sent function responses sent so far. It ends
\* with an exception, or with a reply in hand.
RECURSIVE ToolLoop(_, _, _, _)
ToolLoop(llm, turn, k, sent) ==
  IF turn > 5 THEN LoopState(FALSE, Reply(llm, k), turn - 1, sent, None)
  ELSE CASE Reply(llm, k) = "malformed" ->
              \* response.candidates[0] of a reply without candidates
              LoopState(TRUE, "malformed", turn, sent, None)
         [] Reply(llm, k) = "bad_args_call" ->
              \* args['numerator'] of a call without it
              LoopState(TRUE, "bad_args_call", turn, sent, None)
         [] Reply(llm, k) = "calculate_kpi" ->
              LET kpi == calculate_kpi(llm.kpi_args[1], llm.kpi_args[2])
              IN IF kpi.raised
                 THEN LoopState(TRUE, "calculate_kpi", turn, sent, None)
                 ELSE IF Reply(llm, k + 1) = "raise"
                 THEN LoopState(TRUE, "raise", turn, sent + 1, Some(kpi.val))
                 ELSE LET next == ToolLoop(llm, turn + 1, k + 1, sent + 1)
                      IN IF next.kpi = None
                         THEN [next EXCEPT !.kpi = Some(kpi.val)]
                         ELSE next
         [] Reply(llm, k) = "unknown_call" ->
              \* neither continue nor break: the next turn sees the same reply
              ToolLoop(llm, turn + 1, k, sent)
         [] OTHER -> LoopState(FALSE, Reply(llm, k), turn, sent, None)

\* extraction.py 170-177: the report of the reply in hand; a reply without
\* parsed report and without text is no data.
ParsedReport(llm, reply) ==
  IF reply \in {"parsed", "text"}
  THEN Return([DefaultReport EXCEPT !.recap = llm.model_recap])
  ELSE IF reply = "invalid_text" THEN Raise("ValidationError")
  ELSE Return(None)

\* extraction.py 179-186: the metrics are written into the report.
Injected(report, token_metrics) ==
  IF ~(InjectedKeys \subseteq DOMAIN token_metrics) THEN Raise("KeyError")
  ELSE Return([report EXCEPT
                 !.initial_tokens = token_metrics["initial_tokens"],
                 !.final_tokens = token_metrics["final_tokens"],
                 !.token_reduction_pct = token_metrics["reduction_pct"],
                 !.csr_density = Get(token_metrics, "csr_density", 0),
                 !.conciseness_proxy = Get(token_metrics, "conciseness", 0),
                 !.extraction_confidence = 1])

\* extraction.py 188-194 and 217-255: the recap; its exception is logged
\* and the report goes on as it is.
Recap(report, llm) ==
  IF llm.recap = "raise" THEN Return(report)
  ELSE Return([report EXCEPT
                 !.recap = IF llm.recap = "text" THEN Some("summary")
                           ELSE Some("No summary generated.")])

\* What the chat of one extraction saw: the state the tool loop ended in,
\* or no turn at all where the loop was never entered.
ChatTrace(llm) ==
  IF ~llm.client \/ llm.create = "raise" \/ Reply(llm, 1) = "raise"
  THEN LoopState(TRUE, "none", 0, 0, None)
  ELSE ToolLoop(llm, 1, 1, 0)

\* The try block of extract_kpis_with_llm, extraction.py 106-197.
TryExtract(processed_text, token_metrics, llm) ==
  IF llm.create = "raise" \/ Reply(llm, 1) = "raise" THEN Raise("Exception")
  ELSE LET loop == ToolLoop(llm, 1, 1, 0)
       IN IF loop.raised THEN Raise("Exception")
          ELSE LET parsed == ParsedReport(llm, loop.reply)
               IN IF parsed.raised THEN parsed
                  ELSE IF parsed.result = None THEN Return(DefaultReport)
                  ELSE LET injected == Injected(parsed.result, token_metrics)
                       IN IF injected.raised THEN injected
                          ELSE Recap(injected.result, llm)

\* extraction.py 98-203: the client is created outside the try block; any
\* Exception of the try block becomes the default report.
extract_kpis_with_llm(processed_text, token_metrics, llm) ==
  IF ~llm.client THEN Raise("ValueError")
  ELSE LET tried == TryExtract(processed_text, token_metrics, llm)
       IN IF tried.raised THEN Return(DefaultReport) ELSE tried

\* ------------------------------------------------------------------------
\* The Streamlit application (app.py, lines 84-269)
\* ------------------------------------------------------------------------

\* st.file_uploader(type=['pdf']) accepts a name whose extension is pdf in
\* any case.
UploaderAccepts(name) == EndsWith(Lower(name), PdfSuffix)

\* The files a user uploads: a report, the same report under an upper-case
\* suffix, another report under the name of the first, and bytes that are
\* no PDF.
AppFiles ==
  { [name |-> <<"a",".","p","d","f">>, valid |-> TRUE, fails_at |-> 0,
     pages |-> <<LineVocab[1], LineVocab[2]>>],
    [name |-> <<"b",".","P","D","F">>, valid |-> TRUE, fails_at |-> 0,
     pages |-> <<LineVocab[1], LineVocab[2]>>],
    [name |-> <<"a",".","p","d","f">>, valid |-> TRUE, fails_at |-> 0,
     pages |-> <<LineVocab[3]>>],
    [name |-> <<"d",".","p","d","f">>, valid |-> FALSE, fails_at |-> 0, pages |-> <<>>] }

\* MockUploadedFile(reports/ferrero.pdf)
DemoFile ==
  [name |-> <<"f","e","r","r","e","r","o",".","p","d","f">>, valid |-> TRUE, fails_at |-> 0,
   pages |-> <<LineVocab[2], LineVocab[4]>>]

\* app.py 84-94
InitialSession ==
  [processed_data |-> None, final_report |-> None, current_file |-> None,
   is_extracting |-> FALSE, demo_mode |-> FALSE]

AppInit ==
  /\ widget = None
  /\ session_state = InitialSession
  /\ demo_exists = TRUE
  /\ app_pc = "idle"
  /\ uploaded_file = None
  /\ app_error = "none"
  /\ start_shown = FALSE
  /\ analysis_log = <<>>

\* A user's interaction starts a script run.
StartRun ==
  /\ app_pc = "idle"
  /\ Len(analysis_log) < MaxAnalyses
  /\ app_pc' = "run"
  /\ uploaded_file' = None
  /\ app_error' = "none"
  /\ start_shown' = FALSE
  /\ UNCHANGED <<pipeVars, unit, demo_exists, analysis_log>>

\* The user puts a file into the uploader.
Upload(f) ==
  /\ UploaderAccepts(f.name)
  /\ widget # Some(f)
  /\ StartRun
  /\ widget' = Some(f)
  /\ UNCHANGED session_state

\* The user removes the file from the uploader.
RemoveFile ==
  /\ widget # None
  /\ StartRun
  /\ widget' = None
  /\ UNCHANGED session_state

\* app.py 105-107: the demo button sets demo_mode and reruns.
ClickDemo ==
  /\ StartRun
  /\ session_state' = [session_state EXCEPT !.demo_mode = TRUE]
  /\ UNCHANGED widget

\* app.py 137-139: the button that leaves the demo mode, shown while the
\* demo file is the one in use.
ClickExitDemo ==
  /\ widget = None
  /\ session_state.demo_mode
  /\ demo_exists
  /\ StartRun
  /\ session_state' = [session_state EXCEPT !.demo_mode = FALSE]
  /\ UNCHANGED widget

\* app.py 241-247: the extraction button; its callback sets is_extracting
\* before the run.
ClickStartExtraction ==
  /\ start_shown
  /\ StartRun
  /\ session_state' = [session_state EXCEPT !.is_extracting = TRUE]
  /\ UNCHANGED widget

\* Any other interaction: the script runs again.
Rerender ==
  /\ StartRun
  /\ UNCHANGED <<widget, session_state>>

\* reports/ferrero.pdf is removed from, or put back on, the disk.
ToggleDemoFile ==
  /\ app_pc = "idle"
  /\ demo_exists' = ~demo_exists
  /\ UNCHANGED <<pipeVars, unit, widget, session_state, app_pc, uploaded_file,
                 app_error, start_shown, analysis_log>>

\* app.py 143-149: a file of another name than current_file is new.
BeginWithFile(f) ==
  /\ uploaded_file' = Some(f)
  /\ IF session_state.current_file # f.name
     THEN /\ session_state' = [session_state EXCEPT !.current_file = f.name,
                                                    !.final_report = None,
                                                    !.is_extracting = FALSE]
          /\ app_pc' = "analyze"
     ELSE /\ session_state' = session_state
          /\ app_pc' = "render"

\* app.py 121-149 and 264-269: the run resolves its file.
ResolveFile ==
  /\ app_pc = "run"
  /\ IF widget # None
     THEN IF session_state.demo_mode
          \* app.py 125-127: an upload ends the demo mode, st.rerun()
          THEN /\ session_state' = [session_state EXCEPT !.demo_mode = FALSE]
               /\ UNCHANGED <<app_pc, uploaded_file>>
          ELSE BeginWithFile(widget[1])
     ELSE IF session_state.demo_mode /\ demo_exists
          THEN BeginWithFile(DemoFile)
          \* app.py 264-269: no file, the session is reset
          ELSE /\ session_state' = [session_state EXCEPT
                                      !.processed_data = None,
                                      !.final_report = None,
                                      !.current_file = None]
               /\ app_pc' = "idle"
               /\ UNCHANGED uploaded_file
  /\ UNCHANGED <<pipeVars, unit, widget, demo_exists, app_error, start_shown,
                 analysis_log>>

\* app.py 153: the run calls analyze_structure(uploaded_file).
CallAnalyze ==
  /\ app_pc = "analyze"
  /\ AnalyzeStructure(uploaded_file[1])

\* The locals of a finished call are gone.
PipeReturn ==
  /\ pc' = "idle"
  /\ file' = NoFile
  /\ handle' = "none"
  /\ page_idx' = 0
  /\ raw_text_pages' = <<>>
  /\ raw_text' = <<>>
  /\ initial_tokens' = 0
  /\ cleaned_lines' = <<>>
  /\ cleaned_text' = <<>>
  /\ cleaned_tokens' = 0
  /\ paragraphs' = <<>>
  /\ relevant_paragraphs' = <<>>
  /\ final_text_content' = <<>>
  /\ csr_density' = 0
  /\ markdown_text' = <<>>
  /\ final_tokens' = 0
  /\ metrics' = <<>>
  /\ result' = <<>>
  /\ exception' = "none"
  /\ UNCHANGED pipeline_calls

\* app.py 153-154: the returned tuple becomes processed_data.
StoreAnalysis ==
  /\ app_pc = "analyze"
  /\ pc = "returned"
  /\ session_state' = [session_state EXCEPT !.processed_data = Some(result)]
  /\ analysis_log' = Append(analysis_log, [file |-> file, stored |-> TRUE])
  /\ app_pc' = "render"
  /\ PipeReturn
  /\ UNCHANGED <<unit, widget, demo_exists, uploaded_file, app_error,
                 start_shown>>

\* app.py 153: an exception of analyze_structure ends the run.
AnalysisRaised ==
  /\ app_pc = "analyze"
  /\ pc = "raised"
  /\ app_error' = exception
  /\ analysis_log' = Append(analysis_log, [file |-> file, stored |-> FALSE])
  /\ app_pc' = "idle"
  /\ PipeReturn
  /\ UNCHANGED <<unit, widget, session_state, demo_exists, uploaded_file,
                 start_shown>>

\* The keys the token display reads with metrics[...], app.py 204-208.
DisplayedKeys == {"initial_tokens", "final_tokens", "reduction_pct"}

\* app.py 246-258: the extraction, then st.rerun().
Extract(processed, shown_metrics, llm) ==
  LET ext == extract_kpis_with_llm(processed, shown_metrics, llm)
  IN /\ session_state' =
          [session_state EXCEPT
             !.final_report = IF ext.raised THEN @ ELSE Some(ext.result),
             !.is_extracting = FALSE]
     /\ app_pc' = "run"
     /\ UNCHANGED <<app_error, start_shown>>

\* app.py 157-262: the run renders processed_data.
Render ==
  /\ app_pc = "render"
  /\ IF session_state.processed_data = None
     THEN /\ app_pc' = "idle"
          /\ UNCHANGED <<session_state, app_error, start_shown>>
     ELSE IF ~(DisplayedKeys \subseteq DOMAIN session_state.processed_data[1][3])
          \* app.py 204: metrics['initial_tokens'] of a dict without it
          THEN /\ app_error' = "KeyError"
               /\ app_pc' = "idle"
               /\ UNCHANGED <<session_state, start_shown>>
     ELSE IF ~session_state.is_extracting
          THEN /\ start_shown' = TRUE
               /\ app_pc' = "idle"
               /\ UNCHANGED <<session_state, app_error>>
     ELSE \E llm \in LlmOutcomes :
            Extract(session_state.processed_data[1][1],
                    session_state.processed_data[1][3], llm)
  /\ UNCHANGED <<pipeVars, unit, widget, demo_exists, uploaded_file, analysis_log>>

\* ------------------------------------------------------------------------
\* Specifications
\* ------------------------------------------------------------------------

vars == <<pipeVars, appVars, unit>>

\* No function is called on its own.
NoCall == [fn |-> "none", args |-> <<>>, returned |-> FALSE, value |-> <<>>]

Init == PipeInit /\ AppInit /\ unit = NoCall

\* One call of analyze_structure, step by step.
Next ==
  \/ \E f \in Files : AnalyzeStructure(f)
  \/ OpenPdf
  \/ ExtractPage
  \/ ClosePdf
  \/ CleanText
  \/ FilterRelevant
  \/ StructureMarkdown
  \/ ComputeMetrics
  \/ TopKeywords

Spec == Init /\ [][Next]_vars

\* A session of the application; its runs call analyze_structure.
AppNext ==
  \/ \E f \in AppFiles : Upload(f)
  \/ RemoveFile
  \/ ClickDemo
  \/ ClickExitDemo
  \/ ClickStartExtraction
  \/ Rerender
  \/ ToggleDemoFile
  \/ ResolveFile
  \/ CallAnalyze
  \/ OpenPdf
  \/ ExtractPage
  \/ ClosePdf
  \/ CleanText
  \/ FilterRelevant
  \/ StructureMarkdown
  \/ ComputeMetrics
  \/ TopKeywords
  \/ StoreAnalysis
  \/ AnalysisRaised
  \/ Render

SpecApp == Init /\ [][AppNext]_vars

\* ------------------------------------------------------------------------
\* Single calls of the functions of preprocessing.py
\* ------------------------------------------------------------------------

Call(fn, args) == [fn |-> fn, args |-> args, returned |-> FALSE, value |-> <<>>]

Returned(fn) == unit.fn = fn /\ unit.returned

\* Lines that do not end a fabricated paragraph: an open line, an
\* upper-case header, a line ending with a colon and an upper-case line of
\* 100 characters.
InnerLines == {LineVocab[4], LineVocab[1], LineVocab[8], LineVocab[9]}

\* The line that ends every fabricated paragraph, terminated by '.'.
ClosingLine == LineVocab[2]

\* A logical paragraph: up to two lines, then the closing line.
LineGroups ==
  {<<ClosingLine>>}
  \cup {<<a, ClosingLine>> : a \in InnerLines}
  \cup {<<a, b, ClosingLine>> : a \in InnerLines, b \in InnerLines}

GroupSeqs == UNION {[1..n -> LineGroups] : n \in 1..MaxGroups}

\* The second pass of clean_text over the lines of the groups, and the join.
ReconstructParagraphs ==
  /\ unit.fn = "merge_paragraphs"
  /\ ~unit.returned
  /\ LET groups == unit.args[1]
         cleaned_lines_in == Concat(groups, 1, Len(groups))
     IN unit' = [unit EXCEPT
                   !.returned = TRUE,
                   !.value = Join(MergeParagraphs(cleaned_lines_in, 1, <<>>, <<>>),
                                  NLNL)]
  /\ UNCHANGED <<pipeVars, appVars>>

\* The paragraphs to_markdown is called on: the two paragraphs of the
\* spec's scenario, an upper-case paragraph behind a bullet, an upper-case
\* paragraph of 100 characters, bullets of each glyph, a bullet behind
\* leading whitespace, a bullet before a negative number, a doubled bullet
\* and a plain paragraph.
MarkdownParagraphs ==
  { <<"S","U","S","T","A","I","N","A","B","I","L","I","T","Y"," ","H","I",
      "G","H","L","I","G","H","T","S">>,
    <<"U+2022"," ","R","e","d","u","c","e","d"," ","w","a","t","e","r",
      " ","u","s","a","g","e"," ","b","y"," ","1","0","%">>,
    <<"-"," ","W","A","T","E","R"," ","U","S","E">>,
    LineVocab[9],
    <<"-","w","a","t","e","r">>,
    <<"U+2013"," ","w","a","t","e","r">>,
    <<" ","-"," ","w","a","t","e","r">>,
    <<"-"," ","-","5"," ","%"," ","c","h","a","n","g","e">>,
    <<"U+2022","U+2022"," ","w","a","t","e","r">>,
    <<"w","a","t","e","r"," ","-"," ","u","s","e">> }

MarkdownTexts ==
  MarkdownParagraphs
  \cup {a \o NLNL \o b : a \in MarkdownParagraphs, b \in MarkdownParagraphs}

\* to_markdown(text)
ToMarkdown ==
  /\ unit.fn = "to_markdown"
  /\ ~unit.returned
  /\ unit' = [unit EXCEPT !.returned = TRUE,
                          !.value = to_markdown(unit.args[1])]
  /\ UNCHANGED <<pipeVars, appVars>>

\* The paragraphs the keyword extractor is called on: two plain paragraphs
\* of six words, upper-case headers of five and of six words, a bullet
\* glued to the first of five words, a doubled bullet before four words, a
\* paragraph of two words and one of six stopwords.
KeywordParagraphs ==
  { <<"w","a","t","e","r"," ","e","n","e","r","g","y"," ","w","a","s","t",
      "e"," ","c","a","r","b","o","n"," ","c","l","i","m","a","t","e",
      " ","r","i","s","k">>,
    <<"w","a","t","e","r"," ","b","o","a","r","d"," ","a","u","d","i","t",
      " ","r","i","s","k"," ","s","u","p","p","l","i","e","r"," ","b",
      "o","a","r","d">>,
    <<"W","A","T","E","R"," ","E","N","E","R","G","Y"," ","W","A","S","T",
      "E"," ","C","A","R","B","O","N"," ","C","L","I","M","A","T","E">>,
    <<"W","A","T","E","R"," ","B","O","A","R","D"," ","A","U","D","I","T",
      " ","R","I","S","K"," ","S","U","P","P","L","I","E","R"," ","B",
      "O","A","R","D">>,
    <<"-","w","a","t","e","r"," ","e","n","e","r","g","y"," ","w","a","s",
      "t","e"," ","c","a","r","b","o","n"," ","c","l","i","m","a","t",
      "e">>,
    <<"-"," ","-"," ","w","a","t","e","r"," ","e","n","e","r","g","y"," ",
      "w","a","s","t","e"," ","c","a","r","b","o","n">>,
    <<"w","a","t","e","r"," ","e","n","e","r","g","y">>,
    <<"t","h","e"," ","o","f"," ","a","n","d"," ","i","n"," ","t","o"," ",
      "f","o","r">> }

\* Texts of no, one, two and (of the six-word paragraphs) three paragraphs.
KeywordTexts ==
  {<<>>}
  \cup KeywordParagraphs
  \cup {a \o NLNL \o b : a \in KeywordParagraphs, b \in KeywordParagraphs}
  \cup {a \o NLNL \o b \o NLNL \o c :
          a \in {p \in KeywordParagraphs : Len(p) > 34 /\ IsUpper(p)},
          b \in {p \in KeywordParagraphs : Len(p) > 34},
          c \in {p \in KeywordParagraphs : Len(p) > 34}}

\* extraction.py 85-90 after the pipeline's Markdown step: the keywords are
\* taken from the Markdown text.
TopKeywordsOfMarkdown ==
  /\ unit.fn = "top_keywords"
  /\ ~unit.returned
  /\ unit' = [unit EXCEPT
                !.returned = TRUE,
                !.value = extract_top_keywords(to_markdown(unit.args[1]), 8)]
  /\ UNCHANGED <<pipeVars, appVars>>


\* The numbers of keywords asked for.
TopNs == {0, 1, 3, 8}

\* One call of extract_top_keywords (preprocessing.py 163-206).
ExtractTopKeywords ==
  /\ unit.fn = "extract_top_keywords"
  /\ ~unit.returned
  /\ unit' = [unit EXCEPT
                !.returned = TRUE,
                !.value = KeywordsOutcome(unit.args[1], unit.args[2])]
  /\ UNCHANGED <<pipeVars, appVars>>

\* Lines the claim classifies as noise: under 5 characters once trimmed, a
\* bare page number, 'page N', a bare 'report', confidentiality and
\* copyright boilerplate, a glyph-id marker, a URL.
NoiseExamples ==
  { <<"P","a","g","e"," ","1","2">>,
    <<"U+00A9"," ","2","0","2","4"," ","A","l","l"," ","R","i","g","h",
      "t","s"," ","R","e","s","e","r","v","e","d">>,
    <<"1","2","3","4","5">>,
    <<" ","1","2","3","4","5","6"," ">>,
    <<"a","b","c","d">>,
    <<" "," ","a","b"," "," "," ">>,
    <<"R","e","p","o","r","t">>,
    <<" ","R","E","P","O","R","T"," ">>,
    <<"S","t","r","i","c","t","l","y"," ","C","o","n","f","i","d","e","n",
      "t","i","a","l">>,
    <<"w","a","t","e","r"," ","(","c","i","d",":","1","2",")"," ","u","s",
      "e">>,
    <<"s","e","e"," ","w","w","w",".","e","x","a","m","p","l","e",".","c",
      "o","m"," ","n","o","w">>,
    <<"P","A","G","E"," "," ","7">> }

\* Lines the claim classifies as not noise.
CleanExamples ==
  { <<"G","H","G"," ","e","m","i","s","s","i","o","n","s"," ","d","e","c",
      "r","e","a","s","e","d"," ","b","y"," ","1","2","%"," ","i","n",
      " ","F","Y","2","0","2","3",".">>,
    <<"P","a","g","e"," ","1","2"," ","o","f"," ","3","0">>,
    <<"1","2"," ","i","t","e","m","s">>,
    <<"r","e","p","o","r","t"," ","2","0","2","3">>,
    <<"w","a","t","e","r">>,
    <<"r","e","p","o","r","t","s">>,
    <<"w","a","t","e","r"," ","(","c","i","d",":",")"," ","u","s","e">>,
    <<"s","e","e"," ","w","w","w",".","e","x","a","m","p","l","e"," ","n",
      "o","w">>,
    <<"p","a","g","e"," ","t","w","e","l","v","e">>,
    <<"1","2","3","4","a">>,
    <<"r","i","g","h","t","s"," ","r","e","s","e","r","v","e","d">> }

\* is_noise and is_relevant of one line (preprocessing.py 86-101).
ClassifyLine ==
  /\ unit.fn = "classify_line"
  /\ ~unit.returned
  /\ unit' = [unit EXCEPT
                !.returned = TRUE,
                !.value = [is_noise |-> is_noise(unit.args[1]),
                           is_relevant |-> is_relevant(unit.args[1])]]
  /\ UNCHANGED <<pipeVars, appVars>>

\* The lines the first pass of clean_text is called on: lines with
\* stopwords, a page header, a table row with a run of blanks, a line with
\* outer and doubled blanks, and lines the pass leaves unchanged.
FilterLines ==
  { <<"t","h","e"," ","g","h","g",".">>, <<"t","h","e"," ","o","x",".">>, <<"i","t","e","m","s">>, <<"P","a","g","e"," ","1","2">>, <<"g","h","g"," ",".">>, <<"w","a",
                                                               "t",
                                                               "e",
                                                               "r",
                                                               " ",
                                                               "u",
                                                               "s",
                                                               "e">>,
    <<"1","2"," "," "," "," ","7">>, <<" ","W","A","T","E","R"," "," ","u","s","e"," ">>, <<"G","H","G"," ","u","s","e"," ","f","e","l","l">> }

\* Sequences of one or two such lines.
FilterInputs ==
  {<<a>> : a \in FilterLines} \cup {<<a, b>> : a \in FilterLines, b \in FilterLines}

\* The first pass of clean_text over a line sequence (preprocessing.py
\* 125-137).
FilterLinesOnce ==
  /\ unit.fn = "clean_lines"
  /\ ~unit.returned
  /\ unit' = [unit EXCEPT !.returned = TRUE,
                          !.value = CleanLines(unit.args[1])]
  /\ UNCHANGED <<pipeVars, appVars>>

\* Lines whose relevance rests on a keyword phrase: 'code of conduct' alone
\* and beside another keyword, the three phrases without a stopword, a line
\* where a stopword stands inside 'scope 1', and a line without a keyword.
PhraseLines ==
  { <<"O","u","r"," ","c","o","d","e"," ","o","f"," ","c","o","n","d","u",
      "c","t"," ","a","p","p","l","i","e","s",".">>, <<"C","o","d","e"," ","o","f"," ",
                                       "C",
                                       "o",
                                       "n",
                                       "d",
                                       "u",
                                       "c",
                                       "t",
                                       " ",
                                       "a",
                                       "n",
                                       "d",
                                       " ",
                                       "a",
                                       "u",
                                       "d",
                                       "i",
                                       "t">>,
    <<"S","c","o","p","e"," ","1"," ","r","o","s","e",".">>, <<"t","h","e"," ","s","u","p","p","l","y"," ","c",
                        "h","a","i","n">>, <<"o","u","r"," ","h","u","m",
                                             "a",
                                             "n",
                                             " ",
                                             "r",
                                             "i",
                                             "g",
                                             "h",
                                             "t",
                                             "s",
                                             " ",
                                             "p",
                                             "o",
                                             "l",
                                             "i",
                                             "c",
                                             "y">>,
    <<"i","n"," ","s","c","o","p","e"," ","f","o","r"," ","1"," ","s","i",
      "t","e">>, <<"t","h","e"," ","o","x"," ","e","a","t","s",
                              " ","h","a","y">> }

\* The token_metrics dicts extract_kpis_with_llm is called with: the one
\* process_pdf_pipeline builds, the {} analyze_structure returns for a file
\* that is no PDF, one without reduction_pct, and one with only the three
\* keys read by subscript.
TokenMetrics ==
  {[initial_tokens |-> 40, final_tokens |-> 10, reduction_pct |-> 75,
    csr_density |-> 50, conciseness |-> 3],
   EmptyDict,
   [initial_tokens |-> 40, final_tokens |-> 10],
   [initial_tokens |-> 40, final_tokens |-> 10, reduction_pct |-> 75]}

\* One call of extract_kpis_with_llm (extraction.py 98-203): what it returns
\* or raises, and what its chat saw.
ExtractKpis ==
  /\ unit.fn = "extract_kpis_with_llm"
  /\ ~unit.returned
  /\ unit' = [unit EXCEPT
                !.returned = TRUE,
                !.value = extract_kpis_with_llm(unit.args[1], unit.args[2],
                                                unit.args[3])
                          @@ [chat |-> ChatTrace(unit.args[3])]]
  /\ UNCHANGED <<pipeVars, appVars>>

UnitCalls ==
  {Call("merge_paragraphs", <<g>>) : g \in GroupSeqs}
  \cup {Call("to_markdown", <<text>>) : text \in MarkdownTexts}
  \cup {Call("top_keywords", <<text>>) : text \in KeywordTexts}
  \cup {Call("extract_top_keywords", <<text, n>>) :
          text \in KeywordTexts, n \in TopNs}
  \cup {Call("classify_line", <<line>>) :
          line \in NoiseExamples \cup CleanExamples}
  \cup {Call("clean_lines", <<lines>>) : lines \in FilterInputs}
  \cup {Call("clean_lines", <<<<line>>>>) : line \in PhraseLines}
  \cup {Call("extract_kpis_with_llm", <<<<"t","x","t">>, tm, llm>>) :
          tm \in TokenMetrics, llm \in LlmScenarios}

UnitInit == PipeInit /\ AppInit /\ unit \in UnitCalls

UnitNext ==
  \/ ReconstructParagraphs
  \/ ToMarkdown
  \/ TopKeywordsOfMarkdown
  \/ ExtractTopKeywords
  \/ ClassifyLine
  \/ FilterLinesOnce
  \/ ExtractKpis

\* One call of one function on a drawn input.
SpecUnit == UnitInit /\ [][UnitNext]_vars
\* ------------------------------------------------------------------------
\* Properties of the pipeline
\* ------------------------------------------------------------------------

\* analyze_structure has returned the result of a '.pdf' file.
ReturnedPdf == pc = "returned" /\ IsPdfName(file.name)

\* The elements of P at the indices of I, in ascending order.
SubseqAt(P, I) ==
  [k \in 1..Cardinality(I) |->
     P[CHOOSE i \in I : Cardinality({j \in I : j < i}) = k - 1]]

\* The relevant paragraphs of a cleaned text, by index.
RelevantOf(cleaned) ==
  LET P == Split(cleaned, NLNL)
  IN SubseqAt(P, {i \in 1..Len(P) : is_relevant(P[i])})

\* C1: with P the paragraphs of cleaned_text and R its relevant ones, the
\* final text is the whole cleaned text when |R| is below 5% of |P|, and
\* otherwise (also at exactly 5%) it is R in order joined by a double
\* newline, with no paragraph that is not relevant.
C1_FilterPolicy ==
  pc \in {"markdown", "metrics", "keywords", "returned"} =>
    LET P == Split(cleaned_text, NLNL)
        R == RelevantOf(cleaned_text)
    IN IF Len(R) * 100 < 5 * Len(P)
       THEN final_text_content = cleaned_text
       ELSE /\ final_text_content = Join(R, NLNL)
            /\ LET F == Split(final_text_content, NLNL)
               IN \A i \in 1..Len(F) : is_relevant(F[i])

\* C1 witness: 20 paragraphs of which exactly one (5%) is relevant, and the
\* filter was kept.
C1_Witness ==
  /\ pc = "returned"
  /\ Len(paragraphs) = 20
  /\ Len(relevant_paragraphs) = 1
  /\ final_text_content # cleaned_text
  /\ Len(Split(final_text_content, NLNL)) = 1

\* C2 (as claimed): conciseness is at most 1, the Markdown structurer never
\* grows the token count.
C2_ConcisenessAtMostOne ==
  ReturnedPdf =>
    /\ metrics.conciseness <= 10000
    /\ count_tokens(to_markdown(final_text_content))
         <= count_tokens(final_text_content)

\* C3 (as claimed): csr_density is the length of the relevant paragraphs
\* joined by a double newline over the length of cleaned_text, rounded to 4
\* decimals, and 0 for an empty cleaned_text.
C3_DensityOfRelevantContent ==
  ReturnedPdf =>
    LET relevant_text == Join(RelevantOf(cleaned_text), NLNL)
    IN metrics.csr_density =
         IF cleaned_text = <<>> THEN 0
         ELSE RoundHalfEven(Len(relevant_text) * 10000, Len(cleaned_text))

\* C4: 0 <= csr_density <= 1 and 0 <= conciseness; the final text is never
\* longer than the cleaned text.
C4_MetricRanges ==
  ReturnedPdf =>
    /\ 0 <= metrics.csr_density
    /\ metrics.csr_density <= 10000
    /\ 0 <= metrics.conciseness
    /\ Len(final_text_content) <= Len(cleaned_text)

\* C4 witness: the filter was kept and removed something.
C4_Witness ==
  /\ ReturnedPdf
  /\ Len(final_text_content) < Len(cleaned_text)
  /\ 0 < metrics.csr_density
  /\ metrics.csr_density < 10000

\* C5: reduction_pct is 0 for no initial tokens and otherwise
\* (initial - final) / initial * 100 to 2 decimals, with initial the tokens
\* of raw_text and final the tokens of the returned markdown_text.
C5_ReductionPct ==
  ReturnedPdf =>
    LET i == count_tokens(result[2])
        f == count_tokens(result[1])
        r == result[3].reduction_pct
        err == r * i - (i - f) * 10000
    IN /\ result[3].initial_tokens = i
       /\ result[3].final_tokens = f
       /\ i = 0 => r = 0
       /\ i > 0 => 2 * (IF err < 0 THEN -err ELSE err) <= i

\* C5 witness: tokens were there at the start and the Markdown step changed
\* their number.
C5_Witness ==
  /\ ReturnedPdf
  /\ initial_tokens > 0
  /\ final_tokens # count_tokens(final_text_content)
  /\ metrics.reduction_pct # 0

\* C6: no ratio is computed over a zero denominator; each yields 0 there.
C6_NoDivisionByZero ==
  /\ exception # "ZeroDivisionError"
  /\ ReturnedPdf =>
       /\ Len(cleaned_text) = 0 => metrics.csr_density = 0
       /\ initial_tokens = 0 => metrics.reduction_pct = 0
       /\ cleaned_tokens = 0 => metrics.conciseness = 0

\* C6 witness: a cleaned text that is not empty and has no token.
C6_Witness ==
  /\ ReturnedPdf
  /\ cleaned_text # <<>>
  /\ cleaned_tokens = 0
  /\ initial_tokens > 0

\* No page of the file has text.
NoText(f) == \A i \in 1..Len(f.pages) : f.pages[i] = <<>>

\* C7: a document without extractable text is processed without error and
\* yields empty texts, zero metrics and no keywords.
C7_EmptyDocument ==
  (IsPdfName(file.name) /\ file.valid /\ NoText(file)) =>
    /\ pc # "raised"
    /\ pc = "returned" =>
         result = << <<>>, <<>>,
                     [initial_tokens |-> 0, final_tokens |-> 0,
                      reduction_pct |-> 0, csr_density |-> 0,
                      conciseness |-> 0, top_keywords |-> <<>>] >>

\* C7 witness: a document of two pages, neither with text, was processed.
C7_Witness ==
  /\ ReturnedPdf
  /\ file.valid
  /\ Len(file.pages) = 2
  /\ NoText(file)

\* C9: a name that does not end with '.pdf' is answered ("", "", {}) with
\* no pipeline run and no exception; a '.pdf' name gets all six keys.
C9_SuffixGate ==
  /\ (file # NoFile /\ ~EndsWith(file.name, <<".","p","d","f">>)) =>
       /\ pc = "returned"
       /\ result = << <<>>, <<>>, <<>> >>
       /\ DOMAIN result[3] = {}
       /\ pipeline_calls = 0
       /\ handle = "none"
       /\ exception = "none"
  /\ (pc = "returned" /\ EndsWith(file.name, <<".","p","d","f">>)) =>
       DOMAIN result[3] = {"initial_tokens", "final_tokens", "reduction_pct",
                           "csr_density", "conciseness", "top_keywords"}

\* C9 witness: a file with text and an upper-case suffix was answered.
C9_Witness ==
  /\ pc = "returned"
  /\ file.name = <<"r",".","P","D","F">>
  /\ file.valid
  /\ ~NoText(file)
  /\ Len(file.pages) > 0

\* A line closes its paragraph.
ClosesParagraph(line) ==
  \/ Len(line) > 0 /\ line[Len(line)] \in {".", "!", "?", ":"}
  \/ /\ Len(line) < 100
     /\ \E i \in 1..Len(line) : line[i] \in UpperSet
     /\ \A i \in 1..Len(line) : line[i] \notin LowerSet

\* The partition of the lines into paragraphs: a paragraph ends at every
\* closing line and at the last line.
PartitionOf(lines) ==
  LET n == Len(lines)
      ends == {i \in 1..n : ClosesParagraph(lines[i]) \/ i = n}
      first(e) == 1 + Cardinality({i \in 1..n :
                                     \E x \in ends : x < e /\ i <= x})
      groups == SubseqAt([i \in 1..n |-> SubSeq(lines, first(i), i)], ends)
  IN groups

C8_NoMissingKey == app_error # "KeyError"

\* ------------------------------------------------------------------------
\* Properties of single calls
\* ------------------------------------------------------------------------

\* The paragraphs a list of line groups stands for.
ParagraphsOf(groups) == [g \in 1..Len(groups) |-> Join(groups[g], SP)]

\* No line of a group before its last closes a paragraph.
PlainGroups(groups) ==
  \A g \in 1..Len(groups) :
    \A i \in 1..(Len(groups[g]) - 1) : ~ClosesParagraph(groups[g][i])

\* C11 (as claimed): every group of lines that ends with a '.'-terminated
\* line comes out as exactly one paragraph, the space-join of its lines.
C11_OneParagraphPerGroup ==
  Returned("merge_paragraphs") =>
    Split(unit.value, NLNL) = ParagraphsOf(unit.args[1])

\* C11 (amended): when no line of a group before its last ends with one of
\* . ! ? : or is upper-case and under 100 characters, every group comes out
\* as exactly one paragraph, the space-join of its lines.
C11_OneParagraphPerPlainGroup ==
  (Returned("merge_paragraphs") /\ PlainGroups(unit.args[1])) =>
    Split(unit.value, NLNL) = ParagraphsOf(unit.args[1])

\* C11 witness: two groups were reconstructed, the first of three lines
\* with an upper-case line of 100 characters inside.
C11_Witness ==
  /\ Returned("merge_paragraphs")
  /\ PlainGroups(unit.args[1])
  /\ Len(unit.args[1]) = 2
  /\ Len(unit.args[1][1]) = 3
  /\ Len(unit.args[1][1][2]) = 100
  /\ Len(Split(unit.value, NLNL)) = 2

\* What C12 says of one paragraph: a header rule first, then a bullet rule
\* that strips the bullet and the whitespace after it, else no change.
RenderedAsClaimed(p) ==
  LET trimmed == Strip(p)
  IN IF IsUpper(p) /\ Len(p) < 100 THEN <<"#", "#", " ">> \o Title(p)
     ELSE IF trimmed # <<>> /\ trimmed[1] \in {"U+2022", "-", "U+2013"}
          THEN <<"-", " ">> \o LStripChars(Tail(trimmed), SpaceSet)
     ELSE p

\* C12 (as claimed): to_markdown keeps the number and order of the
\* paragraphs and renders each on its own: upper-case and under 100
\* characters as '## ' and the title-cased text (before the bullet rule), a
\* bullet paragraph as '- ' and the text without its bullet and leading
\* whitespace, any other paragraph unchanged.
C12_MarkdownRules ==
  Returned("to_markdown") =>
    LET P == Split(unit.args[1], NLNL)
        Q == Split(unit.value, NLNL)
    IN /\ Len(Q) = Len(P)
       /\ \A i \in 1..Len(P) : Q[i] = RenderedAsClaimed(P[i])

\* Which paragraphs of a text pass the extractor's test of more than 5
\* whitespace-separated words (preprocessing.py, line 173).
Qualifies(text) ==
  LET P == Split(text, NLNL)
  IN [i \in 1..Len(P) |-> Len(SplitWhitespace(P[i])) > 5]

DocsOf(text) ==
  LET qualifying == QualifyingParagraphs(text)
  IN [d \in 1..Len(qualifying) |-> Ngrams(qualifying[d])]

\* The degenerate inputs of C14: an empty text, fewer than 2 paragraphs of
\* more than 5 words, or no term left after stopword and max_df filtering.
Degenerate(text) ==
  \/ text = <<>>
  \/ Len(QualifyingParagraphs(text)) < 2
  \/ Vocabulary(DocsOf(text)) = {}

\* terms are distinct terms of the vocabulary, in descending order of
\* their summed score.
RankedTerms(terms, text) ==
  Only({(
    Only({(
      Only({(
        Only({(
               /\ \A i \in 1..Len(terms) : terms[i] \in vocab
               /\ \A i, j \in 1..Len(terms) :
                    i < j => /\ terms[i] # terms[j]
                             /\ score[terms[i]] >= score[terms[j]])
                               : score \in {Scores(Len(docs), vocab, w, Norms(Len(docs), vocab, w))}}))
                               : w \in {Weights(docs, vocab)}}))
                               : vocab \in {Vocabulary(docs)}}))
                               : docs \in {DocsOf(text)}})

\* C14: extract_top_keywords never raises; it returns [] for an empty
\* text, for fewer than 2 paragraphs of more than 5 words and for an empty
\* vocabulary, and otherwise at most top_n terms in descending order of
\* summed score.
C14_KeywordsTotal ==
  Returned("extract_top_keywords") =>
    /\ ~unit.value.raised
    /\ IF Degenerate(unit.args[1]) THEN unit.value.result = <<>>
       ELSE /\ Len(unit.value.result) <= unit.args[2]
            /\ RankedTerms(unit.value.result, unit.args[1])

\* Two paragraphs of more than 5 words whose terms are all pruned (every
\* term is in both paragraphs, or every word is a stopword): the
\* vectorizer's ValueError became [].
C14_Witness ==
  /\ Returned("extract_top_keywords")
  /\ Len(QualifyingParagraphs(unit.args[1])) >= 2
  /\ Vocabulary(DocsOf(unit.args[1])) = {}
  /\ ~unit.value.raised
  /\ unit.value.result = <<>>

NoiseFreeNormalized(lines) ==
  \A i \in 1..Len(lines) :
    LET line == lines[i]
    IN /\ ~is_noise(line)
       /\ Strip(line) = line
       /\ \A k \in 1..Len(line) : line[k] \in SpaceSet => line[k] = " "
       /\ word_tokenize(line) = Split(line, SP)
       /\ \A k \in 1..Len(word_tokenize(line)) :
            Lower(word_tokenize(line)[k]) \notin STOP_WORDS

\* C16 (as claimed): filtering twice gives the same lines as filtering
\* once.
C16_FilterTwiceIsOnce ==
  Returned("clean_lines") => CleanLines(unit.value) = unit.value

\* C16 (amended): a line sequence that is noise-free and normalized is a
\* fixed point of the filter.
C16_CleanLinesAreFixedPoint ==
  (Returned("clean_lines") /\ NoiseFreeNormalized(unit.args[1])) =>
    unit.value = unit.args[1]

\* Two different noise-free, normalized lines came back unchanged.
C16_Witness ==
  /\ Returned("clean_lines")
  /\ NoiseFreeNormalized(unit.args[1])
  /\ Len(unit.args[1]) = 2
  /\ unit.args[1][1] # unit.args[1][2]
  /\ unit.value = unit.args[1]

\* C17: the handle is open only while the page loop runs: no state after
\* the with block, and no terminal state (returned or raised), has it
\* open, and the pages are read only through an open handle.
C17_HandleReleased ==
  /\ handle = "open" <=> pc = "pages"
  /\ pc \in {"returned", "raised"} => handle \in {"none", "closed"}
  /\ pc \in {"clean", "filter", "markdown", "metrics", "keywords"} =>
       handle = "closed"

\* Reading a page after the first one raised, and the handle is closed.
C17_Witness ==
  /\ pc = "raised"
  /\ file.valid
  /\ file.fails_at > 1
  /\ raw_text_pages # <<>>
  /\ handle = "closed"

\* The pages of a document that have text, in order.
PagesWithText(f) == SelectSeq(f.pages, LAMBDA text : text # <<>>)

\* C18: a failure to decode the PDF (at open, or at a page) leaves the call
\* as an exception: the pipeline was entered once, no later step ran and no
\* tuple was returned; a call returns only for a document that decoded, and
\* a page without text is skipped without error.
C18_DecodeFailurePropagates ==
  /\ (pc = "raised" /\ (~file.valid \/ file.fails_at > 0)) =>
       /\ exception = "DocumentParseError"
       /\ pipeline_calls = 1
       /\ result = <<>>
       /\ metrics = <<>>
       /\ raw_text = <<>> /\ cleaned_text = <<>> /\ markdown_text = <<>>
  /\ (pc = "returned" /\ IsPdfName(file.name)) =>
       /\ file.valid /\ file.fails_at = 0
       /\ pipeline_calls = 1
  /\ (pc \in {"clean", "filter", "markdown", "metrics", "keywords", "returned"}
      /\ IsPdfName(file.name)) =>
       /\ raw_text_pages = PagesWithText(file)
       /\ exception = "none"

\* pdfplumber.open raised on bytes that are no PDF.
C18_Witness ==
  /\ pc = "raised"
  /\ ~file.valid
  /\ exception = "DocumentParseError"
  /\ handle = "none"
  /\ result = <<>>

\* ------------------------------------------------------------------------
\* Properties of the application's staging
\* ------------------------------------------------------------------------

\* The script run is about to call extract_kpis_with_llm (app.py 246-251).
ExtractionBegins ==
  /\ app_pc = "render"
  /\ session_state.processed_data # None
  /\ DisplayedKeys \subseteq DOMAIN session_state.processed_data[1][3]
  /\ session_state.is_extracting

\* The latest call of analyze_structure was for document f and its result
\* was stored.
AnalysedAndStored(f) ==
  /\ analysis_log # <<>>
  /\ analysis_log[Len(analysis_log)].file = f
  /\ analysis_log[Len(analysis_log)].stored

\* C19 (as claimed): LLM extraction begins only after the preprocessing of
\* the selected document has completed and stored its result, and a run
\* does not preprocess again the document whose result it holds.
C19_SequentialStaging ==
  /\ ExtractionBegins => AnalysedAndStored(uploaded_file[1])
  /\ (app_pc = "analyze" /\ session_state.processed_data # None) =>
       ~AnalysedAndStored(uploaded_file[1])

\* The extraction call in hand, its token_metrics and its LLM service.
KpisReturned == Returned("extract_kpis_with_llm")

\* The exchange gives a report: the chat is created, the model asks for
\* calculate_kpi at most five times and then answers with a parsed report or
\* with JSON text that validates, and the metrics hold the three keys read
\* by subscript.
ExtractionSucceeds(token_metrics, llm) ==
  /\ llm.client
  /\ llm.create = "ok"
  /\ llm.calls <= 5
  /\ llm.final \in {"parsed", "text"}
  /\ {"initial_tokens", "final_tokens", "reduction_pct"}
       \subseteq DOMAIN token_metrics

\* The report carries the supplied metrics.
MetricsSet(report, token_metrics) ==
  /\ report.initial_tokens = token_metrics["initial_tokens"]
  /\ report.final_tokens = token_metrics["final_tokens"]
  /\ report.token_reduction_pct = token_metrics["reduction_pct"]
  /\ report.csr_density =
       IF "csr_density" \in DOMAIN token_metrics
       THEN token_metrics["csr_density"] ELSE 0
  /\ report.conciseness_proxy =
       IF "conciseness" \in DOMAIN token_metrics
       THEN token_metrics["conciseness"] ELSE 0

\* With a client, extract_kpis_with_llm never raises; every failure path
\* returns the default report of confidence 0; confidence 1 comes only with
\* a parsed model output and the metrics set.
ExtractionContract ==
  KpisReturned =>
    LET token_metrics == unit.args[2]
        llm == unit.args[3]
    IN /\ llm.client => ~unit.value.raised
       /\ (llm.client /\ ~ExtractionSucceeds(token_metrics, llm)) =>
            /\ unit.value.result.extraction_confidence = 0
            /\ unit.value.result.initial_tokens = 0
            /\ unit.value.result.recap = <<>>
       /\ (llm.client /\ unit.value.result.extraction_confidence = 1) =>
            /\ ExtractionSucceeds(token_metrics, llm)
            /\ MetricsSet(unit.value.result, token_metrics)

\* A failure of recap generation alone leaves the successful report as it
\* is, with recap unset.
RecapUnsetOnFailure ==
  KpisReturned =>
    LET token_metrics == unit.args[2]
        llm == unit.args[3]
    IN (ExtractionSucceeds(token_metrics, llm) /\ llm.recap = "raise") =>
         /\ unit.value.result.extraction_confidence = 1
         /\ MetricsSet(unit.value.result, token_metrics)
         /\ unit.value.result.recap = <<>>

\* C20: once the LLM client has been created, extract_kpis_with_llm never
\* raises: every failure path (an exception in chat creation, message
\* sending, tool-call handling or output parsing, a missing required metrics
\* key, no data returned) returns a default ESGReport of confidence 0.0; a
\* report of confidence 1.0 is returned only after the model output was
\* parsed and the five metrics fields were set from the supplied metrics; a
\* failure of recap generation alone leaves that report intact with recap
\* unset.
C20_ExtractionNeverRaises == ExtractionContract /\ RecapUnsetOnFailure

\* ------------------------------------------------------------------------
\* Properties of the tool loop
\* ------------------------------------------------------------------------

\* The chat was created and its first message answered: the tool loop of
\* the extraction in hand was entered.
LoopEntered(llm) ==
  /\ llm.client
  /\ llm.create = "ok"
  /\ ~(llm.calls = 0 /\ llm.final = "raise")

\* Answers that are no function call.
NonToolAnswers == {"parsed", "text", "invalid_text", "nothing"}

\* C21: the tool loop of extract_kpis_with_llm ends after at most 5 turns
\* and at most 5 function responses sent: a model that keeps requesting
\* calculate_kpi is answered five times, a request for an unknown function
\* is never answered, an answer that is no function call ends the loop in
\* the turn that sees it; and calculate_kpi gives 0.0 for a zero
\* denominator and does not raise.
C21_ToolLoopBounded ==
  KpisReturned =>
    LET llm == unit.args[3]
        chat == unit.value.chat
    IN /\ chat.turns <= 5
       /\ chat.sent <= 5
       /\ chat.sent <= llm.calls
       /\ LoopEntered(llm) =>
            /\ llm.calls >= 5 => chat.turns = 5 /\ chat.sent = 5
            /\ (llm.calls = 0 /\ llm.final = "unknown_call") =>
                 chat.turns = 5 /\ chat.sent = 0 /\ ~chat.raised
            /\ (llm.calls < 5 /\ llm.final \in NonToolAnswers) =>
                 /\ chat.turns = llm.calls + 1
                 /\ chat.sent = llm.calls
                 /\ ~chat.raised
                 /\ chat.reply = llm.final
            /\ (llm.calls > 0 /\ llm.kpi_args[2] = 0) =>
                 /\ chat.kpi = <<0>>
                 /\ ~(chat.raised /\ chat.reply = "calculate_kpi")

\* The case of C21: a model that asked for calculate_kpi with a zero
\* denominator six times in a row was answered five times with 0.0.
C21_Witness ==
  /\ KpisReturned
  /\ unit.args[3].calls = 6
  /\ unit.args[3].kpi_args[2] = 0
  /\ unit.value.chat.turns = 5
  /\ unit.value.chat.sent = 5
  /\ unit.value.chat.kpi = <<0>>

\* ------------------------------------------------------------------------
\* Properties of the session state
\* ------------------------------------------------------------------------

\* The file processed_data was computed from: the one of the latest call
\* of analyze_structure whose result was stored.
SourceOfProcessedData ==
  LET stored == {i \in 1..Len(analysis_log) : analysis_log[i].stored}
  IN IF stored = {} THEN NoFile
     ELSE analysis_log[CHOOSE i \in stored : \A j \in stored : j <= i].file

\* A result is held: processed_data, or the final_report extracted from it
\* (app.py 251; final_report is cleared wherever processed_data is replaced,
\* lines 148 and 266-267).
ResultHeld ==
  \/ session_state.processed_data # None
  \/ session_state.final_report # None

\* C22 (as claimed): after any sequence of reruns, a result held in
\* processed_data or final_report was computed from the file that
\* current_file names, and a run that displays the result or sends it to
\* the extraction does so for the file it selected.
C22_NoStaleResult ==
  /\ (app_pc = "idle" /\ ResultHeld) =>
       SourceOfProcessedData.name = session_state.current_file
  /\ (app_pc = "render" /\ ResultHeld) =>
       /\ uploaded_file[1].name = session_state.current_file
       /\ SourceOfProcessedData = uploaded_file[1]

\* The name half of C22 alone, between runs.
CurrentFileNamesSource ==
  (app_pc = "idle" /\ ResultHeld) =>
    SourceOfProcessedData.name = session_state.current_file

\* The display half of C22 alone.
DisplayedIsOfSelectedFile ==
  (app_pc = "render" /\ ResultHeld) =>
    SourceOfProcessedData = uploaded_file[1]

\* Between runs the name half of C22 fails only after a call of
\* analyze_structure that raised.
NameStaleOnlyAfterRaise ==
  \/ CurrentFileNamesSource
  \/ \E i \in 1..Len(analysis_log) : ~analysis_log[i].stored

\* ------------------------------------------------------------------------
\* Properties of the stopword reduction
\* ------------------------------------------------------------------------

\* The keyword phrases of more than one word.
KeywordPhrases ==
  {ESG_KEYWORDS[k] : k \in {j \in 1..Len(ESG_KEYWORDS) :
                                \E c \in 1..Len(ESG_KEYWORDS[j]) :
                                  ESG_KEYWORDS[j][c] = " "}}

\* Every line of the call in hand was retained by the first pass.
AllRetained ==
  /\ Returned("clean_lines")
  /\ Len(unit.value) = Len(unit.args[1])

\* C23 (as claimed): the stopword reduction of a retained line does not
\* change its relevance, and every keyword phrase of more than one word
\* that occurs in the line still occurs in the reduced line.
C23_ReductionKeepsRelevance ==
  AllRetained =>
    \A i \in 1..Len(unit.value) :
      /\ is_relevant(unit.value[i]) = is_relevant(unit.args[1][i])
      /\ \A phrase \in KeywordPhrases :
           Contains(Lower(unit.args[1][i]), phrase) =>
             Contains(Lower(unit.value[i]), phrase)

\* A phrase without a stopword in it that occurs in a retained line still
\* occurs in the reduced line.
PhrasesWithoutStopwordSurvive ==
  AllRetained =>
    \A i \in 1..Len(unit.value) :
      \A phrase \in KeywordPhrases :
        (/\ Contains(Lower(unit.args[1][i]), phrase)
         /\ \A w \in 1..Len(Split(phrase, SP)) :
              Split(phrase, SP)[w] \notin STOP_WORDS) =>
          Contains(Lower(unit.value[i]), phrase)

\* A relevant line is lost to the reduction, and a line becomes relevant
\* by it.
RelevanceLost ==
  /\ AllRetained
  /\ Len(unit.value) = 1
  /\ is_relevant(unit.args[1][1])
  /\ ~is_relevant(unit.value[1])

RelevanceGained ==
  /\ AllRetained
  /\ Len(unit.value) = 1
  /\ ~is_relevant(unit.args[1][1])
  /\ is_relevant(unit.value[1])

====
